---- MODULE Spec2Model ----
(***************************************************************************)
(* The LAMMPS data codec of gmso (src/gmso/formats/lammpsdata.py): the     *)
(* writer write_lammpsdata, the reader read_lammpsdata and the file they   *)
(* exchange.  A file is a sequence of lines, a line the sequence of tokens *)
(* str.split() yields.  Numbers are fixed point: an integer v stands for   *)
(* the value v * 10^-6, so that six decimals are exact and rounding to     *)
(* five decimals is visible.                                               *)
(***************************************************************************)
EXTENDS Integers, Sequences, FiniteSets, TLC

VARIABLES top, args, env, fs, writes, rd, nperm, api

vars == <<top, args, env, fs, writes, rd, nperm, api>>

(***************************************************************************)
(* Bounds of the model.                                                    *)
(***************************************************************************)
MaxClock == 1
MaxPerms == 1
MaxWrites == 2

(***************************************************************************)
(* Tokens.  k = "w": a word; "c": a word glued to a leading '#';           *)
(* "i": an integer literal; "f": a decimal literal (n in 10^-6).           *)
(***************************************************************************)
W(s) == [k |-> "w", s |-> s, n |-> 0]
C(s) == [k |-> "c", s |-> s, n |-> 0]
I(n) == [k |-> "i", s |-> "", n |-> n]
F(n) == [k |-> "f", s |-> "", n |-> n]
T(n) == [k |-> "w", s |-> "<time>", n |-> n]

Blank == <<>>

\* line.split() membership: the token is exactly the word s
HasWord(line, s) == \E j \in 1..Len(line) : line[j].k = "w" /\ line[j].s = s

\* the words that contain "atom" as a substring (case sensitive)
AtomWords == {"atom", "atoms", "atomic"}

\* `sub in line` on the raw text of the line, for the substrings the reader uses
HasSub(line, sub) ==
    \E j \in 1..Len(line) :
        /\ line[j].k \in {"w", "c"}
        /\ \/ line[j].s = sub
           \/ sub = "atom" /\ line[j].s \in AtomWords

\* int(token): defined on integer literals only
IsInt(t) == t.k = "i"
\* float(token): defined on integer and decimal literals
IsFloat(t) == t.k \in {"i", "f"}
Scale == 10 ^ 6
FloatOf(t) == IF t.k = "i" THEN t.n * Scale ELSE t.n
\* the text of a token, used where the reader takes a token as a name
TokText(t) == IF t.k \in {"w", "c"} THEN t.s ELSE ToString(t.n)

(***************************************************************************)
(* Python's ordering of the strings that occur as type names.              *)
(***************************************************************************)
NameOrder == <<"1", "2", "3", "4", "5", "6", "C", "H", "N">>
Rank(s) == CHOOSE i \in 1..Len(NameOrder) : NameOrder[i] = s
Ranks(names) == [i \in 1..Len(names) |-> Rank(names[i])]

RECURSIVE LexLess(_, _)
LexLess(a, b) ==
    IF a = <<>> THEN b /= <<>>
    ELSE IF b = <<>> THEN FALSE
    ELSE IF Head(a) < Head(b) THEN TRUE
    ELSE IF Head(a) > Head(b) THEN FALSE
    ELSE LexLess(Tail(a), Tail(b))

\* list.sort(key=...): stable; p = <<key, item>>
RECURSIVE Insert(_, _)
Insert(sorted, p) ==
    IF sorted = <<>> THEN <<p>>
    ELSE IF LexLess(p[1], Head(sorted)[1]) THEN <<p>> \o sorted
    ELSE <<Head(sorted)>> \o Insert(Tail(sorted), p)

RECURSIVE SortPairsN(_, _)
SortPairsN(ps, n) == IF n = 0 THEN <<>> ELSE Insert(SortPairsN(ps, n - 1), ps[n])
SortPairs(ps) == SortPairsN(ps, Len(ps))
Items(ps) == [i \in 1..Len(ps) |-> ps[i][2]]

\* list.index(x): the first position holding a value equal to x, 0 if none
IndexOf(seq, x) ==
    IF \E i \in 1..Len(seq) : seq[i] = x
    THEN CHOOSE i \in 1..Len(seq) : seq[i] = x /\ \A j \in 1..(i - 1) : seq[j] /= x
    ELSE 0

\* the elements of seq, first occurrence of each key kept
RECURSIVE UniqueByN(_, _, _)
UniqueByN(seq, keys, n) ==
    IF n = 0 THEN <<>>
    ELSE LET before == UniqueByN(seq, keys, n - 1)
         IN IF \E j \in 1..(n - 1) : keys[j] = keys[n] THEN before
            ELSE Append(before, seq[n])

Min2(a, b) == IF a <= b THEN a ELSE b
Abs(x) == IF x < 0 THEN -x ELSE x

\* the first exception of a sequence of evaluations
RECURSIVE FirstExc(_)
FirstExc(rs) ==
    IF rs = <<>> THEN ""
    ELSE IF Head(rs).exc /= "" THEN Head(rs).exc
    ELSE FirstExc(Tail(rs))
(***************************************************************************)
(* Quantities and units.  A quantity is a value with the name of its unit. *)
(***************************************************************************)
Q(v, u) == [v |-> v, u |-> u]

\* the base units of a unit style (LAMMPS_UnitSystems.usystem)
usystem(style) ==
    LET base(l, e, m, c) == [length |-> l, energy |-> e, mass |-> m,
                             charge |-> c, angle |-> "radian"]
    IN CASE style = "metal" -> base("angstrom", "eV", "amu", "elementary_charge")
         [] style = "si" -> base("m", "J", "kg", "C")
         [] style = "cgs" -> base("cm", "erg", "g", "esu")
         [] style = "electron" -> base("bohr", "hartree", "amu", "elementary_charge")
         [] style = "micro" -> base("um", "pg*um**2/us**2", "pg", "pC")
         [] style = "nano" -> base("nm", "ag*nm**2/ns**2", "ag", "elementary_charge")
         [] OTHER -> base("angstrom", "kcal/mol", "amu", "elementary_charge")

\* unit arithmetic u1 / u2**2, dimensionless units cancelling
UDivSq(u1, u2) ==
    IF u2 = "dimensionless" THEN u1 ELSE u1 \o "/" \o u2 \o "**2"

\* get_units with the equilibrium angle in the style's own angle unit
get_units_angle_eq_as_angle(style, dimension) ==
    IF style = "lj"
    THEN IF dimension = "angle" THEN "radian" ELSE "dimensionless"
    ELSE IF dimension = "angle_eq" THEN usystem(style)["angle"]
    ELSE usystem(style)[dimension]

\* get_units(base_unyts, dimension), base_unyts = LAMMPS_UnitSystems(style)
get_units(style, dimension) ==
    IF style = "lj"
    THEN IF dimension = "angle" THEN "radian" ELSE "dimensionless"
    ELSE IF dimension = "angle_eq" THEN "degree"
    ELSE usystem(style)[dimension]

\* the physical dimension of a unit
DimOf(u) ==
    CASE u \in {"angstrom", "nm"} -> "length"
      [] u \in {"kcal/mol", "kJ"} -> "energy"
      [] u = "amu" -> "mass"
      [] u = "elementary_charge" -> "charge"
      [] u \in {"radian", "degree"} -> "angle"
      [] u = "kcal/mol/angstrom**2" -> "energy/length**2"
      [] u = "kcal/mol/radian**2" -> "energy/angle**2"
      [] u = "dimensionless" -> "dimensionless"
      [] OTHER -> "other"

\* round(value, n_decimals) on fixed-point values
RoundTo(v, nd) ==
    IF nd >= 6 THEN v
    ELSE LET m == 10 ^ (6 - nd) IN ((v + (m \div 2)) \div m) * m

\* v / f for fixed-point v and f > 0, to three decimals of f
QDivide(v, f) == (v \div (f \div 1000)) * 1000

LjKeys == {"length", "energy", "mass", "charge"}

\* a dict of reference factors: none = TRUE stands for None
NoDict == [none |-> TRUE, d |-> [x \in {} |-> Q(0, "")]]
Dict(f) == [none |-> FALSE, d |-> f]
Truthy(cf) == ~cf.none /\ DOMAIN cf.d /= {}

\* the reference factor that makes a quantity of dimension dim dimensionless
LjFactor(dim, cf) ==
    CASE dim = "length" -> cf.d["length"].v
      [] dim = "energy" -> cf.d["energy"].v
      [] dim = "mass" -> cf.d["mass"].v
      [] dim = "charge" -> cf.d["charge"].v
      [] dim = "energy/length**2" ->
            QDivide(QDivide(cf.d["energy"].v, cf.d["length"].v), cf.d["length"].v)
      [] dim = "energy/angle**2" -> cf.d["energy"].v
      [] OTHER -> Scale

Converted(v) == [ok |-> TRUE, exc |-> "", v |-> v]
NotConverted(exc) == [ok |-> FALSE, exc |-> exc, v |-> 0]

\* UnitSystem.convert_parameter: the value of q in the base unit of the
\* style for q's dimension (degrees for an equilibrium angle), divided by
\* the reference factor under lj, rounded to n_decimals.
\* Result [ok, exc, v]; ok = FALSE when the conversion raises exc.
convert_parameter(q, style, cf, n_decimals, name) ==
    IF name \in {"theta_eq", "phi_eq"}
    THEN IF q.u = "degree" THEN Converted(RoundTo(q.v, n_decimals))
         ELSE NotConverted("UnitConversionError")
    ELSE IF style = "lj"
    THEN IF cf.none \/ ~(LjKeys \subseteq DOMAIN cf.d) THEN NotConverted("ValueError")
         ELSE IF q.u = "dimensionless" \/ DimOf(q.u) = "angle"
         THEN Converted(RoundTo(q.v, n_decimals))
         ELSE IF DimOf(q.u) = "other" \/ LjFactor(DimOf(q.u), cf) < 1000
         THEN NotConverted("UnitConversionError")
         ELSE Converted(RoundTo(QDivide(q.v, LjFactor(DimOf(q.u), cf)), n_decimals))
    ELSE IF DimOf(q.u) \in DOMAIN usystem(style) /\ q.u = usystem(style)[DimOf(q.u)]
    THEN Converted(RoundTo(q.v, n_decimals))
    ELSE IF DimOf(q.u) = "energy/length**2"
            /\ q.u = UDivSq(usystem(style)["energy"], usystem(style)["length"])
    THEN Converted(RoundTo(q.v, n_decimals))
    ELSE IF DimOf(q.u) = "energy/angle**2"
            /\ q.u = UDivSq(usystem(style)["energy"], usystem(style)["angle"])
    THEN Converted(RoundTo(q.v, n_decimals))
    ELSE IF q.u = "nm" THEN Converted(RoundTo(q.v * 10, n_decimals))
    ELSE NotConverted("UnitConversionError")

\* write_out_parameter_and_units: the label "name (unit)" of a column
write_out_parameter_and_units(key, q, style) ==
    <<W(key), W("(" \o (IF style = "lj" THEN "dimensionless" ELSE q.u) \o ")")>>
(***************************************************************************)
(* The topology data model.  A connection holds the positions of its       *)
(* member sites in top.sites (references) and its type, or NoType.         *)
(***************************************************************************)
NoType == [none |-> TRUE]

LJExpression == "4*epsilon*(-sigma**6/r**6 + sigma**12/r**12)"

\* AtomType(): the defaults of an AtomType constructed without parameters
AtomTypeDefaultParams ==
    [p \in {"sigma", "epsilon"} |->
        IF p = "sigma" THEN Q(300000, "nm") ELSE Q(300000, "kJ")]

AtomType(name, mass, charge, params) ==
    [name |-> name, mass |-> mass, charge |-> charge,
     expression |-> LJExpression, parameters |-> params]

\* AtomType.__init__: the attributes an AtomType has besides its name, mass,
\* charge and parameters, with their defaults
NoMeta == [atomclass |-> "", doi |-> "", overrides |-> {}, definition |-> "",
           description |-> ""]

\* an AtomType object: id is its identity, at its potential with mass and
\* charge, m its other attributes
AtomTypeObject(id, at, m) ==
    [cls |-> "AtomType", id |-> id, name |-> at.name, mass |-> at.mass,
     charge |-> at.charge, expression |-> at.expression,
     independent_variables |-> {"r"}, parameters |-> at.parameters,
     atomclass |-> m.atomclass, doi |-> m.doi, overrides |-> m.overrides,
     definition |-> m.definition, description |-> m.description]

\* unyt equality of two quantities: equal values in one unit
unyt_equal(q1, q2) ==
    \/ q1 = q2
    \/ /\ q1.u /= q2.u
       /\ \E c1 \in {convert_parameter(q1, "real", NoDict, 6, "")} :
          \E c2 \in {convert_parameter(q2, "real", NoDict, 6, "")} :
             c1.ok /\ c2.ok /\ c1.v = c2.v

\* unyt_compare(self.parameters.values(), other.parameters.values())
unyt_compare(ps1, ps2) ==
    \A k \in DOMAIN ps1 \cap DOMAIN ps2 : unyt_equal(ps1[k], ps2[k])

\* AtomType.__eq__ without the comparison of the doi
atom_type_eq_without_doi(self, other) ==
    IF other.id = self.id THEN TRUE
    ELSE IF other.cls /= "AtomType" THEN FALSE
    ELSE /\ self.name = other.name
         /\ self.expression = other.expression
         /\ self.independent_variables = other.independent_variables
         /\ DOMAIN self.parameters = DOMAIN other.parameters
         /\ unyt_compare(self.parameters, other.parameters)
         /\ unyt_equal(self.charge, other.charge)
         /\ self.atomclass = other.atomclass
         /\ unyt_equal(self.mass, other.mass)
         /\ self.overrides = other.overrides
         /\ self.definition = other.definition
         /\ self.description = other.description

\* AtomType.__eq__
atom_type_eq(self, other) ==
    IF other.id = self.id THEN TRUE
    ELSE IF other.cls /= "AtomType" THEN FALSE
    ELSE /\ self.name = other.name
         /\ self.expression = other.expression
         /\ self.independent_variables = other.independent_variables
         /\ DOMAIN self.parameters = DOMAIN other.parameters
         /\ unyt_compare(self.parameters, other.parameters)
         /\ unyt_equal(self.charge, other.charge)
         /\ self.atomclass = other.atomclass
         /\ unyt_equal(self.mass, other.mass)
         /\ self.doi = other.doi
         /\ self.overrides = other.overrides
         /\ self.definition = other.definition
         /\ self.description = other.description

\* AtomType.clone: a new AtomType built from copies of every attribute
clone(self, id) ==
    [cls |-> "AtomType", id |-> id, name |-> self.name,
     mass |-> Q(self.mass.v, self.mass.u),
     charge |-> Q(self.charge.v, self.charge.u),
     expression |-> self.expression,
     independent_variables |-> self.independent_variables,
     parameters |-> self.parameters,
     atomclass |-> self.atomclass, doi |-> self.doi,
     overrides |-> IF self.overrides /= {} THEN {o \in self.overrides : TRUE}
                   ELSE {},
     definition |-> self.definition, description |-> self.description]


ConnType(kind, name, member_types, params) ==
    [kind |-> kind, name |-> name, member_types |-> member_types,
     parameters |-> params]

Kinds == <<"bond", "angle", "dihedral", "improper">>

\* top.bonds, top.angles, top.dihedrals, top.impropers
Conns(t, kind) ==
    CASE kind = "bond" -> t.bonds
      [] kind = "angle" -> t.angles
      [] kind = "dihedral" -> t.dihedrals
      [] kind = "improper" -> t.impropers

RECURSIVE TypedOnlyN(_, _)
TypedOnlyN(seq, n) ==
    IF n = 0 THEN <<>>
    ELSE IF seq[n] = NoType THEN TypedOnlyN(seq, n - 1)
    ELSE Append(TypedOnlyN(seq, n - 1), seq[n])

\* top.atom_types : the atom types of the typed sites, in site order
atom_types(t) ==
    TypedOnlyN([i \in 1..Len(t.sites) |-> t.sites[i].atom_type], Len(t.sites))

\* top.bond_types, ... : the types of the typed connections, in order
conn_types(t, kind) ==
    TypedOnlyN([i \in 1..Len(Conns(t, kind)) |-> Conns(t, kind)[i].ctype],
               Len(Conns(t, kind)))

\* top.is_fully_typed()
is_fully_typed(t) ==
    /\ \A i \in 1..Len(t.sites) : t.sites[i].atom_type /= NoType
    /\ \A x \in 1..4 : \A i \in 1..Len(Conns(t, Kinds[x])) :
          Conns(t, Kinds[x])[i].ctype /= NoType

\* gmso.utils.sorting.sort_by_types: the canonical order of the member
\* type names of a connection type
sort_by_types(ct) ==
    LET m == ct.member_types IN
    CASE ct.kind = "bond" ->
            IF Rank(m[1]) <= Rank(m[2]) THEN m ELSE <<m[2], m[1]>>
      [] ct.kind = "angle" ->
            IF Rank(m[1]) <= Rank(m[3]) THEN m ELSE <<m[3], m[2], m[1]>>
      [] ct.kind = "dihedral" ->
            IF \/ Rank(m[2]) > Rank(m[3])
               \/ (m[2] = m[3] /\ Rank(m[1]) > Rank(m[4]))
            THEN <<m[4], m[3], m[2], m[1]>> ELSE m
      [] ct.kind = "improper" ->
            LET rest == Items(SortPairs([i \in 1..3 |-> <<<<Rank(m[i + 1])>>, m[i + 1]>>]))
            IN <<m[1]>> \o rest

\* top.atom_types(filter_by=PotentialFilters.UNIQUE_SORTED_NAMES)
atom_types_unique(t) ==
    LET ts == atom_types(t)
    IN UniqueByN(ts, [i \in 1..Len(ts) |-> ts[i].name], Len(ts))

\* top.bond_types(filter_by=PotentialFilters.UNIQUE_SORTED_NAMES), ...
conn_types_unique(t, kind) ==
    LET ts == conn_types(t, kind)
    IN UniqueByN(ts, [i \in 1..Len(ts) |-> sort_by_types(ts[i])], Len(ts))
(***************************************************************************)
(* The writer.  Every section writer yields [lines, exc]: the lines it     *)
(* wrote to the file and the exception it raised ("" when it returned).    *)
(***************************************************************************)
Wrote(lines) == [lines |-> lines, exc |-> ""]
Raised(lines, exc) == [lines |-> lines, exc |-> exc]

\* a loop writing Row(1) .. Row(n) that raises Exc(i) at the first i with Bad(i)
RowLoop(n, Bad(_), Row(_), Exc(_)) ==
    IF \E i \in 1..n : Bad(i)
    THEN LET b == CHOOSE i \in 1..n : Bad(i) /\ \A j \in 1..(i - 1) : ~Bad(j)
         IN Raised([i \in 1..(b - 1) |-> Row(i)], Exc(b))
    ELSE Wrote([i \in 1..n |-> Row(i)])

\* section header lines followed by a row loop
Section(head, loop) == [lines |-> head \o loop.lines, exc |-> loop.exc]

StyleFullMolecular == {"full", "molecular"}

\* the title line "{USER} written by {top.name} at {datetime.now()} using the
\* GMSO LAMMPS Writer"
title_line(t, e) ==
    <<W(e.user), W("written"), W("by")>>
    \o (IF t.name = "" THEN <<>> ELSE <<W(t.name)>>)
    \o <<W("at"), T(e.clock), W("using"), W("the"), W("GMSO"), W("LAMMPS"), W("Writer")>>

\* a header whose second line repeats the time of the call
header_title_dated(t, e) == <<title_line(t, e), <<W("#"), T(e.clock)>> >>

\* the first two lines of the file: the title and a blank line
header_title(t, e) == <<title_line(t, e), Blank>>

\* a header that counts the types of all connections, alike or not
write_header_counting_every_type(t, atom_style, e) ==
    LET counts == IF atom_style \in StyleFullMolecular
                  THEN << <<I(Len(t.bonds)), W("bonds")>>,
                          <<I(Len(t.angles)), W("angles")>>,
                          <<I(Len(t.dihedrals)), W("dihedrals")>>,
                          <<I(Len(t.impropers)), W("impropers")>>, Blank >>
                  ELSE <<>>
        typeLine(kind) ==
            IF Len(Conns(t, kind)) > 0 /\ atom_style \in StyleFullMolecular
            THEN << <<I(Len(conn_types(t, kind))), W(kind), W("types")>> >>
            ELSE <<>>
    IN Wrote(header_title(t, e) \o << <<I(Len(t.sites)), W("atoms")>> >>
             \o counts
             \o << <<I(Len(atom_types_unique(t))), W("atom"), W("types")>> >>
             \o typeLine("bond") \o typeLine("angle")
             \o typeLine("dihedral") \o typeLine("improper")
             \o <<Blank>>)

write_header(t, atom_style, e) ==
    LET counts == IF atom_style \in StyleFullMolecular
                  THEN << <<I(Len(t.bonds)), W("bonds")>>,
                          <<I(Len(t.angles)), W("angles")>>,
                          <<I(Len(t.dihedrals)), W("dihedrals")>>,
                          <<I(Len(t.impropers)), W("impropers")>>, Blank >>
                  ELSE <<>>
        typeLine(kind) ==
            IF Len(Conns(t, kind)) > 0 /\ atom_style \in StyleFullMolecular
            THEN << <<I(Len(conn_types_unique(t, kind))), W(kind), W("types")>> >>
            ELSE <<>>
    IN Wrote(header_title(t, e) \o << <<I(Len(t.sites)), W("atoms")>> >>
             \o counts
             \o << <<I(Len(atom_types_unique(t))), W("atom"), W("types")>> >>
             \o typeLine("bond") \o typeLine("angle")
             \o typeLine("dihedral") \o typeLine("improper")
             \o <<Blank>>)

(***************************************************************************)
(* The box.  Lengths are quantities; an angle is a quantity in degree or   *)
(* radian.  The geometry of a tilted box is computed with three decimals:  *)
(* cosines are integers of 10^-3, and a length enters a product as its     *)
(* multiple of 10^-3.  cos and arccos are tabulated for the angles of the  *)
(* boxes at hand.                                                          *)
(***************************************************************************)
AngleTable ==
    { [deg |-> 90000000, rad |-> 1570796, cos |-> 0],
      [deg |-> 53130102, rad |-> 927295, cos |-> 600],
      [deg |-> 126869898, rad |-> 2214297, cos |-> -600],
      [deg |-> 61314598, rad |-> 1070142, cos |-> 480],
      [deg |-> 68899804, rad |-> 1202528, cos |-> 360] }

AngleEntry(q) ==
    CHOOSE e \in AngleTable : IF q.u = "degree" THEN e.deg = q.v ELSE e.rad = q.v

\* angle.to("degree")
ToDegrees(q) == AngleEntry(q).deg

\* np.cos(angle)
CosOf(q) == AngleEntry(q).cos

\* np.arccos(c), in radian; nan where the table has no angle of cosine c
arccos(c) ==
    IF \E e \in AngleTable : e.cos = c
    THEN Q((CHOOSE e \in AngleTable : e.cos = c).rad, "radian")
    ELSE Q(0, "nan")

Max2(a, b) == IF a >= b THEN a ELSE b
\* np.min([0.0, xy, xz, xy + xz]) and np.max of the same
Min4(xy, xz) == Min2(Min2(0, xy), Min2(xz, xy + xz))
Max4(xy, xz) == Max2(Max2(0, xy), Max2(xz, xy + xz))

\* a length in multiples of 10^-3
Milli(v) == v \div 1000

\* the integer part of np.sqrt(n)
RECURSIVE ISqrtIn(_, _, _)
ISqrtIn(n, lo, hi) ==
    IF lo >= hi THEN lo
    ELSE LET mid == (lo + hi + 1) \div 2
         IN IF mid * mid <= n THEN ISqrtIn(n, mid, hi) ELSE ISqrtIn(n, lo, mid - 1)
ISqrt(n) == ISqrtIn(n, 0, 46340)

\* Box(lengths) : angles default to 90 degree
Box(lengths, angles) == [lengths |-> lengths, angles |-> angles]
RightAngles == <<Q(90000000, "degree"), Q(90000000, "degree"), Q(90000000, "degree")>>

\* allclose_units(top.box.angles, [90, 90, 90] degree, rtol=1e-5, atol=1e-8)
Orthogonal(box) ==
    \A i \in 1..3 : box.angles[i].u /= "nan" /\ Abs(ToDegrees(box.angles[i]) - 90000000) <= 900

\* Box.get_unit_vectors(): the unit vectors of the box edges from its angles
\* alpha, beta, gamma, components in 10^-3
get_unit_vectors(box) ==
    LET ca == CosOf(box.angles[1])
        cb == CosOf(box.angles[2])
        cg == CosOf(box.angles[3])
        sg == ISqrt(1000000 - cg * cg)
        cy == (ca * 1000 - cb * cg) \div sg
    IN << <<1000, 0, 0>>, <<cg, sg, 0>>, <<cb, cy, ISqrt(1000000 - cb * cb - cy * cy)>> >>

\* the else branch of _write_box: the four lines from the edge vectors
\* vectors[i][j] = box_lengths[i] * unit_vectors[i][j]
write_box_triclinic(v) ==
    LET xhi == v[1][1]
        yhi == v[2][2]
        zhi == v[3][3]
        xy == v[2][1]
        xz == v[3][1]
        yz == v[3][2]
    IN << <<F(Min4(xy, xz)), F(xhi + Max4(xy, xz)), W("xlo"), W("xhi")>>,
          <<F(Min2(0, yz)), F(yhi + Max2(0, yz)), W("ylo"), W("yhi")>>,
          <<F(0), F(zhi), W("zlo"), W("zhi")>>,
          <<F(xy), F(xz), F(yz), W("xy"), W("xz"), W("yz")>> >>

write_box(t, style, cf) ==
    LET len(i) == convert_parameter(t.box.lengths[i], style, cf, 6, "")
        dims == <<"x", "y", "z">>
        uv == get_unit_vectors(t.box)
    IN IF Orthogonal(t.box)
       THEN IF \E i \in 1..3 : ~len(i).ok
            THEN Raised(<<>>, FirstExc([i \in 1..3 |-> len(i)]))
            ELSE Wrote([i \in 1..4 |->
                    IF i <= 3
                    THEN <<F(0), F(len(i).v), W(dims[i] \o "lo"), W(dims[i] \o "hi")>>
                    ELSE <<F(0), F(0), F(0), W("xy"), W("xz"), W("yz")>>])
       ELSE IF \E i \in 1..3 : ~len(i).ok
            THEN Raised(<<>>, FirstExc([i \in 1..3 |-> len(i)]))
            ELSE Wrote(write_box_triclinic(
                    [i \in 1..3 |-> [j \in 1..3 |-> Milli(len(i).v) * uv[i][j]]]))

\* sorted(top.atom_types(filter_by=pfilter), key=lambda x: x.name)
sorted_atomtypes(t) ==
    LET ts == atom_types_unique(t)
    IN Items(SortPairs([i \in 1..Len(ts) |-> <<<<Rank(ts[i].name)>>, ts[i]>>]))

UnitLabel(style, dim) ==
    W("(" \o (IF style = "lj" THEN "dimensionless" ELSE usystem(style)[dim]) \o ")")

write_atomtypes(t, style, cf) ==
    LET ts == sorted_atomtypes(t)
        mass(i) == convert_parameter(ts[i].mass, style, cf, 6, "")
        Bad(i) == ~mass(i).ok
        Row(i) == <<I(IndexOf(ts, ts[i])), F(mass(i).v), W("#"), W(ts[i].name)>>
        Exc(i) == mass(i).exc
    IN Section(<<Blank, <<W("Masses")>>, <<W("#"), W("mass"), UnitLabel(style, "mass")>> >>,
               RowLoop(Len(ts), Bad, Row, Exc))

\* the "#<tab>name (unit)<tab>..." line above the rows of a coefficient table
LabelLine(keys, params, style) ==
    LET lab(i) == write_out_parameter_and_units(keys[i], params[keys[i]], style)
    IN IF Len(keys) = 2 THEN <<W("#")>> \o lab(1) \o lab(2)
       ELSE <<W("#")>> \o lab(1) \o lab(2) \o lab(3) \o lab(4)

HasKeys(params, keys) == \A i \in 1..Len(keys) : keys[i] \in DOMAIN params

\* the converted columns of one coefficient row: [ok, exc, toks]
CoeffCols(params, keys, style, cf, nd, named) ==
    LET cv(i) == convert_parameter(params[keys[i]], style, cf, nd,
                                   IF named THEN keys[i] ELSE "")
    IN IF ~HasKeys(params, keys) THEN [ok |-> FALSE, exc |-> "KeyError", toks |-> <<>>]
       ELSE IF \E i \in 1..Len(keys) : ~cv(i).ok
       THEN [ok |-> FALSE, exc |-> FirstExc([i \in 1..Len(keys) |-> cv(i)]), toks |-> <<>>]
       ELSE [ok |-> TRUE, exc |-> "", toks |-> [i \in 1..Len(keys) |-> F(cv(i).v)]]

write_pairtypes(t, style, cf) ==
    LET keys == <<"epsilon", "sigma">>
        ts == sorted_atomtypes(t)
        cols(i) == CoeffCols(ts[i].parameters, keys, style, cf, 5, FALSE)
        Bad(i) == ~cols(i).ok
        Row(i) == <<I(i)>> \o cols(i).toks \o <<W("#"), W(ts[i].name)>>
        Exc(i) == cols(i).exc
    IN IF Len(t.sites) = 0 THEN Raised(<<>>, "IndexError")
       ELSE LET test == t.sites[1].atom_type
                head == <<Blank, <<W("Pair"), W("Coeffs"), W("#"), W(test.expression)>> >>
            IN IF ~HasKeys(test.parameters, keys) THEN Raised(head, "KeyError")
               ELSE Section(head \o <<LabelLine(keys, test.parameters, style)>>,
                            RowLoop(Len(ts), Bad, Row, Exc))
\* the member type names of a row comment
Words(names) == [i \in 1..Len(names) |-> W(names[i])]

write_bondtypes(t, style, cf) ==
    LET keys == <<"k", "r_eq">>
        test == t.bonds[1].ctype
        us == conn_types_unique(t, "bond")
        \* bond_types.sort(key=lambda x: sorted(x.member_types))
        sortedPair(m) == IF Rank(m[1]) <= Rank(m[2]) THEN m ELSE <<m[2], m[1]>>
        ts == Items(SortPairs([i \in 1..Len(us) |->
                  <<Ranks(sortedPair(us[i].member_types)), us[i]>>]))
        cols(i) == CoeffCols(ts[i].parameters, keys, style, cf, 6, FALSE)
        Bad(i) == ~cols(i).ok
        Row(i) == <<I(i)>> \o cols(i).toks \o <<W("#")>>
                  \o Words(sortedPair(ts[i].member_types))
        Exc(i) == cols(i).exc
        head == <<Blank, <<W("Bond"), W("Coeffs"), C(test.name)>> >>
    IN IF ~HasKeys(test.parameters, keys) THEN Raised(head, "KeyError")
       ELSE Section(head \o <<LabelLine(keys, test.parameters, style)>>,
                    RowLoop(Len(ts), Bad, Row, Exc))

write_angletypes(t, style, cf) ==
    LET keys == <<"k", "theta_eq">>
        test == t.angles[1].ctype
        us == conn_types_unique(t, "angle")
        \* key: (member_types[1], min(member_types[::2]), max(member_types[::2]))
        key(m) == <<Rank(m[2]), Min2(Rank(m[1]), Rank(m[3])),
                    Rank(m[1]) + Rank(m[3]) - Min2(Rank(m[1]), Rank(m[3]))>>
        ts == Items(SortPairs([i \in 1..Len(us) |-> <<key(us[i].member_types), us[i]>>]))
        cols(i) == CoeffCols(ts[i].parameters, keys, style, cf, 6, TRUE)
        Bad(i) == ~cols(i).ok
        Row(i) == <<I(i)>> \o cols(i).toks
                  \o <<C(ts[i].member_types[1]), W(ts[i].member_types[2]),
                       W(ts[i].member_types[3])>>
        Exc(i) == cols(i).exc
        head == <<Blank, <<W("Angle"), W("Coeffs"), C(test.name)>> >>
    IN IF ~HasKeys(test.parameters, keys) THEN Raised(head, "KeyError")
       ELSE Section(head \o <<LabelLine(keys, test.parameters, style)>>,
                    RowLoop(Len(ts), Bad, Row, Exc))

\* the sort key [x[1][i] for i in [1, 2, 0, 3]] of the dihedral coefficient table
dihedral_coeff_key(s) == <<s[2], s[3], s[1], s[4]>>

write_dihedraltypes(t, style, cf) ==
    LET keys == <<"k1", "k2", "k3", "k4">>
        test == t.dihedrals[1].ctype
        us == conn_types_unique(t, "dihedral")
        ps == SortPairs([i \in 1..Len(us) |->
                  <<Ranks(dihedral_coeff_key(sort_by_types(us[i]))), us[i]>>])
        ts == Items(ps)
        cols(i) == CoeffCols(ts[i].parameters, keys, style, cf, 6, TRUE)
        Bad(i) == ~cols(i).ok
        Row(i) == <<I(i)>> \o cols(i).toks \o <<W("#")>> \o Words(sort_by_types(ts[i]))
        Exc(i) == cols(i).exc
        head == <<Blank, <<W("Dihedral"), W("Coeffs"), C(test.name)>> >>
    IN IF ~HasKeys(test.parameters, keys) THEN Raised(head, "KeyError")
       ELSE Section(head \o <<LabelLine(keys, test.parameters, style)>>,
                    RowLoop(Len(ts), Bad, Row, Exc))

\* the columns "{}\t{:7}\t{:7}\n" of an Improper Coeffs row
improper_row(idx, toks) == <<I(idx)>> \o toks

write_impropertypes(t, style, cf) ==
    LET keys == <<"k", "phi_eq">>
        test == t.impropers[1].ctype
        us == conn_types_unique(t, "improper")
        ts == Items(SortPairs([i \in 1..Len(us) |->
                  <<Ranks(sort_by_types(us[i])), us[i]>>]))
        cols(i) == CoeffCols(ts[i].parameters, keys, style, cf, 6, TRUE)
        Bad(i) == ~cols(i).ok
        Row(i) == improper_row(i, cols(i).toks)
        Exc(i) == cols(i).exc
        head == <<Blank, <<W("Improper"), W("Coeffs"), C(test.name)>> >>
    IN IF ~HasKeys(test.parameters, keys) THEN Raised(head, "KeyError")
       ELSE Section(head \o <<LabelLine(keys, test.parameters, style)>>,
                    RowLoop(Len(ts), Bad, Row, Exc))

\* unique_sorted_typesList.index(site.atom_type) + 1 ; 0 stands for ValueError
site_type_index(ts, site) == IndexOf(ts, site.atom_type)

write_site_data(t, atom_style, style, cf) ==
    LET unique_sorted_typesList == sorted_atomtypes(t)
        tix(i) == site_type_index(unique_sorted_typesList, t.sites[i])
        charge(i) == convert_parameter(t.sites[i].charge, style, cf, 6, "")
        pos(i, d) == convert_parameter(t.sites[i].position[d], style, cf, 6, "")
        Bad(i) == \/ tix(i) = 0
                  \/ ~charge(i).ok
                  \/ \E d \in 1..3 : ~pos(i, d).ok
        Exc(i) == IF tix(i) = 0 THEN "ValueError"
                  ELSE FirstExc(<<charge(i), pos(i, 1), pos(i, 2), pos(i, 3)>>)
        xyz(i) == <<F(pos(i, 1).v), F(pos(i, 2).v), F(pos(i, 3).v)>>
        ti(i) == I(tix(i))
        mol(i) == I(t.sites[i].molecule)
        Row(i) ==
            CASE atom_style = "atomic" -> <<I(i), ti(i)>> \o xyz(i)
              [] atom_style = "charge" -> <<I(i), ti(i), F(charge(i).v)>> \o xyz(i)
              [] atom_style = "molecular" -> <<I(i), mol(i), ti(i)>> \o xyz(i)
              [] atom_style = "full" -> <<I(i), mol(i), ti(i), F(charge(i).v)>> \o xyz(i)
    IN Section(<<Blank, <<W("Atoms"), C(atom_style)>>, Blank>>,
               RowLoop(Len(t.sites), Bad, Row, Exc))

\* an angle sorter that keeps the members in the order given
angle_order_sorter_asis(m) == m

angle_order_sorter(m) == <<m[2], m[1], m[3]>>
dihedral_order_sorter(m) == <<m[2], m[3], m[1], m[4]>>
improper_order_sorter(m) == <<m[1], m[2], m[3], m[4]>>

\* sorting_funcDict[connStr] applied to a tuple of member type names
sorting_func(kind, m) ==
    CASE kind = "bond" -> m
      [] kind = "angle" -> angle_order_sorter(m)
      [] kind = "dihedral" -> dihedral_order_sorter(m)
      [] kind = "improper" -> improper_order_sorter(m)

SectionName(kind) ==
    CASE kind = "bond" -> "Bonds"
      [] kind = "angle" -> "Angles"
      [] kind = "dihedral" -> "Dihedrals"
      [] kind = "improper" -> "Impropers"

\* indexList of _write_conn_data: the member-name tuples of the unique
\* types, sorted by sorting_funcDict[connStr]
conn_indexList(t, kind) ==
    LET us == conn_types_unique(t, kind)
    IN Items(SortPairs([i \in 1..Len(us) |->
           <<Ranks(sorting_func(kind, sort_by_types(us[i]))), sort_by_types(us[i])>>]))

write_conn_data(t, kind) ==
    LET cs == Conns(t, kind)
        indexList == conn_indexList(t, kind)
        Bad(i) == cs[i].ctype = NoType
        Exc(i) == "AttributeError"
        Row(i) == <<I(i), I(IndexOf(indexList, sort_by_types(cs[i].ctype)))>>
                  \o [j \in 1..Len(cs[i].members) |-> I(cs[i].members[j])]
    IN Section(<<Blank, <<W(SectionName(kind))>>, Blank>>,
               RowLoop(Len(cs), Bad, Row, Exc))
(***************************************************************************)
(* write_lammpsdata: validation, conversion, reference factors, file.      *)
(***************************************************************************)
AtomStyles == {"full", "atomic", "molecular", "charge"}
UnitStyles == {"real", "lj", "metal", "si", "cgs", "electron", "micro", "nano"}

\* _accepted_potentials(): the names of the accepted templates
accepted_potentials ==
    {"LennardJonesPotential", "LAMMPSHarmonicBondPotential",
     "LAMMPSHarmonicAnglePotential", "PeriodicTorsionPotential",
     "HarmonicImproperPotential", "OPLSTorsionPotential"}

AllConnTypes(t) ==
    conn_types(t, "bond") \o conn_types(t, "angle")
    \o conn_types(t, "dihedral") \o conn_types(t, "improper")

\* check_compatibility(top, accepted): "" or the error raised
validate_potential_compatibility(t) ==
    IF /\ \A i \in 1..Len(atom_types(t)) : atom_types(t)[i].expression = LJExpression
       /\ \A i \in 1..Len(AllConnTypes(t)) : AllConnTypes(t)[i].name \in accepted_potentials
    THEN "" ELSE "EngineIncompatibilityError"

default_parameterMaps(kind) ==
    CASE kind = "improper" -> "HarmonicImproperPotential"
      [] kind = "dihedral" -> "OPLSTorsionPotential"
      [] kind = "angle" -> "LAMMPSHarmonicAnglePotential"
      [] kind = "bond" -> "LAMMPSHarmonicBondPotential"

WithConns(t, kind, cs) ==
    CASE kind = "bond" -> [t EXCEPT !.bonds = cs]
      [] kind = "angle" -> [t EXCEPT !.angles = cs]
      [] kind = "dihedral" -> [t EXCEPT !.dihedrals = cs]
      [] kind = "improper" -> [t EXCEPT !.impropers = cs]

\* convert_ryckaert_to_opls: the linear transform of the coefficients
\* c0..c5 of a Ryckaert-Bellemans torsion into k1..k4 of an OPLS torsion
convert_ryckaert_to_opls(ty) ==
    LET c(n) == ty.parameters[n].v
        un == ty.parameters["c1"].u
    IN [ty EXCEPT
          !.name = "OPLSTorsionPotential",
          !.parameters = [p \in {"k1", "k2", "k3", "k4"} |->
              Q(CASE p = "k1" -> -2 * c("c1") - (3 * c("c3")) \div 2
                  [] p = "k2" -> -c("c2") - c("c4")
                  [] p = "k3" -> -(c("c3") \div 2)
                  [] p = "k4" -> -(c("c4") \div 4), un)]]

\* the type needs no conversion: it is of the target template or of another
\* accepted template
MatchesTemplate(ty, target) ==
    ty = NoType \/ ty.name = target \/ ty.name \in accepted_potentials

\* a conversion from the template of the type to the target is registered
HasConversion(ty, target) ==
    ty.name = "RyckaertBellemansTorsionPotential" /\ target = "OPLSTorsionPotential"

\* top.convert_potential_styles({kind: target}): a type that matches an
\* accepted template is left as it is, another type is rewritten in place by
\* the registered conversion, and the call fails when there is none;
\* [top, exc]
convert_potential_styles(t, kind, target) ==
    LET cs == Conns(t, kind)
    IN IF \E i \in 1..Len(cs) :
             ~MatchesTemplate(cs[i].ctype, target) /\ ~HasConversion(cs[i].ctype, target)
       THEN [top |-> t, exc |-> "IncompatiblePotentialError"]
       ELSE [top |-> WithConns(t, kind, [i \in 1..Len(cs) |->
                        IF MatchesTemplate(cs[i].ctype, target) THEN cs[i]
                        ELSE [cs[i] EXCEPT !.ctype = convert_ryckaert_to_opls(@)]]),
             exc |-> ""]

ConversionOrder == <<"improper", "dihedral", "angle", "bond">>

RECURSIVE try_conversions_from(_, _)
try_conversions_from(t, x) ==
    IF x > Len(ConversionOrder) THEN [top |-> t, exc |-> ""]
    ELSE LET kind == ConversionOrder[x] IN
         IF conn_types(t, kind) /= <<>>
         THEN LET r == convert_potential_styles(t, kind, default_parameterMaps(kind))
              IN IF r.exc /= "" THEN r ELSE try_conversions_from(r.top, x + 1)
         ELSE IF Conns(t, kind) /= <<>>
         THEN [top |-> t, exc |-> "AttributeError"]
         ELSE try_conversions_from(t, x + 1)

\* _try_default_potential_conversions that leaves untyped connections alone
try_conversions_without_raise(t) ==
    IF try_conversions_from(t, 1).exc = "AttributeError"
    THEN [top |-> t, exc |-> ""]
    ELSE try_conversions_from(t, 1)

try_default_potential_conversions(t) == try_conversions_from(t, 1)

\* np.isclose(a, b, atol=1e-3) with numpy's default rtol=1e-5
isclose(a, b) == Abs(a - b) <= 1000 + (Abs(b) \div 100000)

ParamKeys(ty) == DOMAIN ty.parameters

\* the order in which the parameters of a type are visited
ParamOrder == <<"sigma", "epsilon", "k", "r_eq", "theta_eq", "phi_eq",
                "k1", "k2", "k3", "k4">>

\* the assert of _validate_unit_compatibility on one parameter: [exc]
unit_compatible(q, style, name, cv) ==
    IF ~cv.ok THEN [exc |-> cv.exc]
    ELSE IF ~isclose(cv.v, q.v) THEN [exc |-> "AssertionError"]
    ELSE [exc |-> ""]

\* the parameters of one type, in order: [exc]
type_compatible(ty, style) ==
    [exc |-> FirstExc([x \in 1..Len(ParamOrder) |->
        IF ParamOrder[x] \in ParamKeys(ty)
        THEN unit_compatible(ty.parameters[ParamOrder[x]], style, ParamOrder[x],
                convert_parameter(ty.parameters[ParamOrder[x]], style, NoDict, 6,
                                  ParamOrder[x]))
        ELSE [exc |-> ""]])]

\* _validate_unit_compatibility(top, base_unyts): "" or the error raised
validate_unit_compatibility(t, style) ==
    FirstExc([i \in 1..Len(atom_types(t) \o AllConnTypes(t)) |->
                type_compatible((atom_types(t) \o AllConnTypes(t))[i], style)])

MaxOf(S) == CHOOSE m \in S : \A x \in S : x.v <= m.v

\* _default_lj_val(top, source): [exc, val]
default_lj_val(t, source) ==
    LET ts == atom_types(t)
        par(p) == {ts[i].parameters[p] : i \in 1..Len(ts)}
        need(p) == IF \E i \in 1..Len(ts) : p \notin DOMAIN ts[i].parameters
                   THEN [exc |-> "KeyError", val |-> Q(0, "")]
                   ELSE IF ts = <<>> THEN [exc |-> "ValueError", val |-> Q(0, "")]
                   ELSE [exc |-> "", val |-> MaxOf(par(p))]
    IN CASE source = "length" -> need("sigma")
         [] source = "energy" -> need("epsilon")
         [] source = "mass" ->
               IF ts = <<>> THEN [exc |-> "ValueError", val |-> Q(0, "")]
               ELSE [exc |-> "", val |-> MaxOf({ts[i].mass : i \in 1..Len(ts)})]
         [] source = "charge" ->
               IF ts = <<>> THEN [exc |-> "ValueError", val |-> Q(0, "")]
               ELSE [exc |-> "", val |-> MaxOf({ts[i].charge : i \in 1..Len(ts)})]
         [] OTHER -> [exc |-> "ValueError", val |-> Q(0, "")]

defaultsList == <<"length", "energy", "mass", "charge">>

PutKey(f, key, val) ==
    [x \in DOMAIN f \cup {key} |-> IF x = key THEN val ELSE f[x]]

\* the loop over defaultsList of write_lammpsdata, from position x on;
\* f is the dict as filled so far; [exc, d]
RECURSIVE resolve_defaults(_, _, _)
resolve_defaults(t, f, x) ==
    IF x > Len(defaultsList) THEN [exc |-> "", d |-> f]
    ELSE LET key == defaultsList[x] IN
         IF key \in DOMAIN f /\ f[key].v /= 0
         THEN resolve_defaults(t, f, x + 1)
         ELSE LET dv == default_lj_val(t, key) IN
              IF dv.exc /= "" THEN [exc |-> dv.exc, d |-> f]
              ELSE resolve_defaults(t,
                      IF key \in DOMAIN f THEN f ELSE PutKey(f, key, dv.val), x + 1)

\* the branch "else:  # LJ unit styles" of write_lammpsdata; [exc, d]
resolve_lj_cfactors(t, cf) ==
    LET f0 == IF cf.none THEN [x \in {} |-> Q(0, "")] ELSE cf.d
        keys0 == DOMAIN f0
        r == resolve_defaults(t, f0, 1)
    IN IF r.exc /= "" THEN r
       ELSE IF \E key \in keys0 : key \notin LjKeys
       THEN [exc |-> "ValueError", d |-> r.d]
       ELSE r
\* the sections write_lammpsdata writes into the opened file: [lines, exc]
Then(w, next) ==
    IF w.exc /= "" THEN w ELSE [lines |-> w.lines \o next.lines, exc |-> next.exc]

write_coeff_sections(t, style, cf) ==
    LET opt(kind, sec) == IF conn_types(t, kind) /= <<>> THEN sec ELSE Wrote(<<>>)
    IN Then(Then(Then(Then(Then(
            write_atomtypes(t, style, cf),
            write_pairtypes(t, style, cf)),
            opt("bond", write_bondtypes(t, style, cf))),
            opt("angle", write_angletypes(t, style, cf))),
            opt("dihedral", write_dihedraltypes(t, style, cf))),
            opt("improper", write_impropertypes(t, style, cf)))

\* a writer that emits the Atoms section before the coefficient sections
write_sections_atoms_first(t, a, cf, e) ==
    LET data(kind) == IF Conns(t, kind) /= <<>> THEN write_conn_data(t, kind)
                      ELSE Wrote(<<>>)
    IN Then(Then(Then(Then(Then(Then(Then(
            write_header(t, a.atom_style, e),
            write_box(t, a.unit_style, cf)),
            write_site_data(t, a.atom_style, a.unit_style, cf)),
            IF is_fully_typed(t) THEN write_coeff_sections(t, a.unit_style, cf)
            ELSE Wrote(<<>>)),
            data("bond")), data("angle")), data("dihedral")), data("improper"))

write_sections(t, a, cf, e) ==
    LET data(kind) == IF Conns(t, kind) /= <<>> THEN write_conn_data(t, kind)
                      ELSE Wrote(<<>>)
    IN Then(Then(Then(Then(Then(Then(Then(
            write_header(t, a.atom_style, e),
            write_box(t, a.unit_style, cf)),
            IF is_fully_typed(t) THEN write_coeff_sections(t, a.unit_style, cf)
            ELSE Wrote(<<>>)),
            write_site_data(t, a.atom_style, a.unit_style, cf)),
            data("bond")), data("angle")), data("dihedral")), data("improper"))

\* write_lammpsdata(top, filename, **a) in environment e on file system f:
\* [exc, top, cf, fs, opened, used]: the exception raised ("" on return), the
\* topology and the caller's lj_cfactorsDict as the call leaves them, the
\* file system, whether the file was opened, and the lj_cfactorsDict the
\* section writers were given
WriteFailed(exc, t, cf, f) ==
    [exc |-> exc, top |-> t, cf |-> cf, fs |-> f, opened |-> FALSE, used |-> NoDict,
     handle |-> "none"]

\* a with block that puts the file back as it was when a section raises
write_file_rolled_back(t, cf, used, f, w) ==
    [exc |-> w.exc, top |-> t, cf |-> cf,
     fs |-> IF w.exc /= "" THEN f ELSE [f EXCEPT !.exists = TRUE, !.lines = w.lines],
     opened |-> TRUE, used |-> used, handle |-> "closed"]

\* with open(path, "w") as out_file: ...   w = the sections written; open
\* empties the file, and leaving the block, by return or by exception,
\* closes the handle
write_file(t, cf, used, f, w) ==
    [exc |-> w.exc, top |-> t, cf |-> cf,
     fs |-> [f EXCEPT !.exists = TRUE, !.lines = w.lines], opened |-> TRUE,
     used |-> used, handle |-> "closed"]

\* from "path = Path(filename)" on; un = [exc, caller, used]: the outcome of
\* the unit step, the caller's dict and the dict the writers are given
write_after_units(t, a, e, f, un) ==
    IF un.exc /= "" THEN WriteFailed(un.exc, t, un.caller, f)
    ELSE IF ~f.parent THEN WriteFailed("FileNotFoundError", t, un.caller, f)
    ELSE write_file(t, un.caller, un.used, f, write_sections(t, a, un.used, e))

\* the branch "else:  # LJ unit styles" as [exc, caller, used]
lj_units(cf0, r) ==
    [exc |-> r.exc, caller |-> IF cf0.none THEN cf0 ELSE Dict(r.d), used |-> Dict(r.d)]

\* from "if strict_units:" on; pot = [top, exc]: the outcome of the
\* potential step
write_after_potentials(a, e, f, pot) ==
    IF pot.exc /= "" THEN WriteFailed(pot.exc, pot.top, a.lj_cfactorsDict, f)
    ELSE write_after_units(pot.top, a, e, f,
            IF a.strict_units
            THEN [exc |-> validate_unit_compatibility(pot.top, a.unit_style),
                  caller |-> a.lj_cfactorsDict, used |-> a.lj_cfactorsDict]
            ELSE IF a.unit_style /= "lj"
            THEN [exc |-> "", caller |-> a.lj_cfactorsDict, used |-> NoDict]
            ELSE lj_units(a.lj_cfactorsDict, resolve_lj_cfactors(pot.top, a.lj_cfactorsDict)))

\* a writer that does not reject reference factors given with another style
write_lammpsdata_any_cfactors(t, a, e, f) ==
    IF a.atom_style \notin AtomStyles THEN WriteFailed("ValueError", t, a.lj_cfactorsDict, f)
    ELSE IF a.unit_style \notin UnitStyles
    THEN WriteFailed("ValueError", t, a.lj_cfactorsDict, f)
    ELSE write_after_potentials(a, e, f,
            IF a.strict_potentials
            THEN [top |-> t, exc |-> validate_potential_compatibility(t)]
            ELSE try_default_potential_conversions(t))

write_lammpsdata(t, a, e, f) ==
    IF a.atom_style \notin AtomStyles THEN WriteFailed("ValueError", t, a.lj_cfactorsDict, f)
    ELSE IF a.unit_style \notin UnitStyles
    THEN WriteFailed("ValueError", t, a.lj_cfactorsDict, f)
    ELSE IF a.unit_style /= "lj" /\ Truthy(a.lj_cfactorsDict)
    THEN WriteFailed("ValueError", t, a.lj_cfactorsDict, f)
    ELSE write_after_potentials(a, e, f,
            IF a.strict_potentials
            THEN [top |-> t, exc |-> validate_potential_compatibility(t)]
            ELSE try_default_potential_conversions(t))
(***************************************************************************)
(* The reader.  Every parser yields the exception it raised ("" when it    *)
(* returned) next to what it built.                                        *)
(***************************************************************************)
\* float(line.split()[j - 1]): [exc, v]
FloatAt(line, j) ==
    IF j > Len(line) THEN [exc |-> "IndexError", v |-> 0]
    ELSE IF ~IsFloat(line[j]) THEN [exc |-> "ValueError", v |-> 0]
    ELSE [exc |-> "", v |-> FloatOf(line[j])]

\* int(line.split()[j - 1]): [exc, v]
IntAt(line, j) ==
    IF j > Len(line) THEN [exc |-> "IndexError", v |-> 0]
    ELSE IF ~IsInt(line[j]) THEN [exc |-> "ValueError", v |-> 0]
    ELSE [exc |-> "", v |-> line[j].n]

\* seq[k - 1] of Python for an integer k read from the file: 0 when out of
\* range, else the 1-based position (k = 0 is index -1, the last element)
PyIndex(seq, k) ==
    IF k >= 1 /\ k <= Len(seq) THEN k
    ELSE IF k <= 0 /\ k - 1 >= -Len(seq) THEN Len(seq) + k
    ELSE 0

\* for i, line in enumerate(file): if IsCount(line): n = int(split[0]);
\* if IsBreak(line): break.   elseBreak: the break test is an elif.
\* [exc, none, found, p, n]: none = the file has no line (i is unbound),
\* found = a count line was seen, p = the 1-based position i + 1 at the end
Scan(lines, IsCount(_), IsBreak(_), elseBreak) ==
    LET brk(x) == IsBreak(lines[x]) /\ (elseBreak => ~IsCount(lines[x]))
        p == IF \E x \in 1..Len(lines) : brk(x)
             THEN CHOOSE x \in 1..Len(lines) : brk(x) /\ \A y \in 1..(x - 1) : ~brk(y)
             ELSE Len(lines)
        cs == {x \in 1..p : IsCount(lines[x])}
        last == CHOOSE x \in cs : \A y \in cs : y <= x
    IN IF \E x \in cs : IntAt(lines[x], 1).exc /= ""
       THEN [exc |-> "ValueError", none |-> FALSE, found |-> FALSE, p |-> 0, n |-> 0]
       ELSE [exc |-> "", none |-> lines = <<>>, found |-> cs /= {}, p |-> p,
             n |-> IF cs = {} THEN 0 ELSE lines[last][1].n]

\* readlines()[i + 2 : i + n + 2] for the 1-based position p = i + 1
RowsAfter(lines, p, n) ==
    IF n <= 0 \/ p + 2 > Len(lines) THEN <<>>
    ELSE SubSeq(lines, p + 2, Min2(p + n + 1, Len(lines)))

NoBox == [lengths |-> <<>>, angles |-> <<>>]

\* np.sqrt(x**2 + y**2 + z**2) of three lengths
Norm3(x, y, z) == 1000 * ISqrt(Milli(x) * Milli(x) + Milli(y) * Milli(y) + Milli(z) * Milli(z))

\* np.arccos(num / (b * c)) for num a sum of products of two lengths
arccos_ratio(num, b, c) ==
    IF Milli(b) = 0 \/ Milli(c) = 0 THEN Q(0, "nan")
    ELSE arccos(((num \div Milli(b)) * 1000) \div Milli(c))

\* np.arccos(x / c) for two lengths
arccos_over(x, c) ==
    IF Milli(c) = 0 THEN Q(0, "nan") ELSE arccos((Milli(x) * 1000) \div Milli(c))

\* the triclinic branch of _get_box_coordinates from lx, ly, lz and the
\* tilt factors
triclinic_box(lx, ly, lz, xy, xz, yz, unit, angle_unit) ==
    Box(<<Q(lx, unit), Q(Norm3(ly, xy, 0), unit), Q(Norm3(lz, xz, yz), unit)>>,
        <<[arccos_ratio(Milli(yz) * Milli(ly) + Milli(xy) * Milli(xz),
                        Norm3(ly, xy, 0), Norm3(lz, xz, yz)) EXCEPT !.u =
                IF @ = "nan" THEN @ ELSE angle_unit],
          [arccos_over(xz, Norm3(lz, xz, yz)) EXCEPT !.u = IF @ = "nan" THEN @ ELSE angle_unit],
          [arccos_over(xy, Norm3(ly, xy, 0)) EXCEPT !.u = IF @ = "nan" THEN @ ELSE angle_unit]>>)

\* the bounds of the file taken as the edge lengths
unwidened_raw(lohi, xy, xz, yz) ==
    <<lohi[1] - lohi[2], lohi[3] - lohi[4], lohi[5] - lohi[6]>>

\* the bounds of the file without the widening by the tilt factors:
\* <<lx, ly, lz>> of _get_box_coordinates, lohi = <<xhi, xlo, yhi, ylo, zhi, zlo>>
unwidened(lohi, xy, xz, yz) ==
    <<(lohi[1] - Max4(xy, xz)) - (lohi[2] - Min4(xy, xz)),
      (lohi[3] - Max2(0, yz)) - (lohi[4] - Min2(0, yz)),
      lohi[5] - lohi[6]>>

\* the box of _get_box_coordinates from the parsed lo/hi pairs and tilts
box_of(lohi, tilts, tl, unit, angle_unit) ==
    IF FirstExc(lohi) /= "" THEN [exc |-> FirstExc(lohi), box |-> NoBox]
    ELSE IF ~HasWord(tilts, "xy")
    THEN [exc |-> "",
          box |-> Box([a \in 1..3 |-> Q(lohi[2 * a - 1].v - lohi[2 * a].v, unit)],
                      RightAngles)]
    ELSE IF FirstExc(tl) /= "" THEN [exc |-> FirstExc(tl), box |-> NoBox]
    ELSE [exc |-> "",
          box |-> LET l == unwidened([a \in 1..6 |-> lohi[a].v], tl[1].v, tl[2].v, tl[3].v)
                  IN triclinic_box(l[1], l[2], l[3], tl[1].v, tl[2].v, tl[3].v,
                                   unit, angle_unit)]

\* the lines x_line, y_line, z_line and tilts of _get_box_coordinates
box_lines(x_line, y_line, z_line, tilts, unit, angle_unit) ==
    box_of(<<FloatAt(x_line, 2), FloatAt(x_line, 1), FloatAt(y_line, 2),
             FloatAt(y_line, 1), FloatAt(z_line, 2), FloatAt(z_line, 1)>>,
           tilts, <<FloatAt(tilts, 1), FloatAt(tilts, 2), FloatAt(tilts, 3)>>,
           unit, angle_unit)

\* the line at position x of the file, or what readline() yields at its end
LineAt(lines, x) == IF x >= 1 /\ x <= Len(lines) THEN lines[x] ELSE <<>>

box_scanned(lines, style, s) ==
    IF s.none THEN [exc |-> "UnboundLocalError", box |-> NoBox]
    ELSE box_lines(LineAt(lines, s.p), LineAt(lines, s.p + 1), LineAt(lines, s.p + 2),
                   LineAt(lines, s.p + 3), get_units(style, "length"),
                   get_units(style, "angle"))

\* _get_box_coordinates: [exc, box]
get_box_coordinates(lines, style) ==
    box_scanned(lines, style,
        Scan(lines, LAMBDA l : FALSE, LAMBDA l : HasWord(l, "xlo"), FALSE))

\* the loop "for line in mass_lines": [lines, exc], lines the type_list
mass_types(mass_lines, style) ==
    LET mExc(i) == IF mass_lines[i] = <<>> THEN "IndexError"
                   ELSE FloatAt(mass_lines[i], 2).exc
        mBad(i) == mExc(i) /= ""
        mRow(i) == AtomType(TokText(mass_lines[i][1]),
                            Q(FloatAt(mass_lines[i], 2).v, get_units(style, "mass")),
                            Q(0, "elementary_charge"), AtomTypeDefaultParams)
    IN RowLoop(Len(mass_lines), mBad, mRow, mExc)

\* the loop "for i, pair in enumerate(pair_lines)" over the type_list
pair_types(pair_lines, type_list, style) ==
    LET three(i) == Len(pair_lines[i]) = 3
        pExc(i) == IF i > Len(type_list) THEN "IndexError"
                   ELSE FirstExc(<<FloatAt(pair_lines[i], 3), FloatAt(pair_lines[i], 2)>>)
        pBad(i) == three(i) /\ pExc(i) /= ""
        typed(i) ==
            IF i <= Len(pair_lines) /\ three(i)
            THEN [type_list[i] EXCEPT !.parameters =
                    [q \in {"sigma", "epsilon"} |->
                       IF q = "sigma"
                       THEN Q(FloatAt(pair_lines[i], 3).v, get_units(style, "length"))
                       ELSE Q(FloatAt(pair_lines[i], 2).v, get_units(style, "energy"))]]
            ELSE type_list[i]
    IN IF \E i \in 1..Len(pair_lines) : pBad(i)
       THEN [exc |-> pExc(CHOOSE i \in 1..Len(pair_lines) :
                            pBad(i) /\ \A j \in 1..(i - 1) : ~pBad(j)),
             type_list |-> <<>>, warn |-> FALSE]
       ELSE [exc |-> "", type_list |-> [i \in 1..Len(type_list) |-> typed(i)],
             warn |-> \E i \in 1..Len(pair_lines) : Len(pair_lines[i]) = 4]

\* the second half of _get_ff_information: the Pair Coeffs table
ff_pairs(lines, style, s, masses, s2) ==
    IF masses.exc /= "" THEN [exc |-> masses.exc, type_list |-> <<>>, warn |-> FALSE]
    ELSE pair_types(RowsAfter(lines, s2.p, s.n), masses.lines, style)

\* the first half of _get_ff_information: the Masses table
ff_scanned(lines, style, s) ==
    IF s.exc /= "" THEN [exc |-> s.exc, type_list |-> <<>>, warn |-> FALSE]
    ELSE IF ~s.found THEN [exc |-> "TypeError", type_list |-> <<>>, warn |-> FALSE]
    ELSE ff_pairs(lines, style, s, mass_types(RowsAfter(lines, s.p, s.n), style),
                  Scan(lines, LAMBDA l : FALSE, LAMBDA l : HasSub(l, "Pair"), FALSE))

\* _get_ff_information: [exc, type_list]
get_ff_information(lines, style) ==
    ff_scanned(lines, style,
        Scan(lines, LAMBDA l : HasSub(l, "atom"), LAMBDA l : HasSub(l, "Masses"), TRUE))

\* one pass of the loop "for line in atom_lines": [exc, site]
atom_of(atom_line, style, type_list, ty) ==
    LET exc == FirstExc(<<
            IF Len(atom_line) < 3 THEN [exc |-> "IndexError"] ELSE [exc |-> ""],
            FloatAt(atom_line, 4), FloatAt(atom_line, 5),
            FloatAt(atom_line, 6), FloatAt(atom_line, 7),
            ty, IntAt(atom_line, 2)>>)
    IN IF exc /= "" THEN [exc |-> exc]
       ELSE [exc |-> "",
             site |-> [atom_type |-> type_list[ty.ix],
                       charge |-> Q(FloatAt(atom_line, 4).v, get_units(style, "charge")),
                       position |-> [d \in 1..3 |->
                           Q(FloatAt(atom_line, 4 + d).v, get_units(style, "length"))],
                       molecule |-> IntAt(atom_line, 2).v]]

\* the type an Atoms row names in column 3: [exc, ix]
atom_row_type(row, type_list) ==
    IF IntAt(row, 3).exc /= "" THEN [exc |-> IntAt(row, 3).exc, ix |-> 0]
    ELSE IF PyIndex(type_list, IntAt(row, 3).v) = 0 THEN [exc |-> "IndexError", ix |-> 0]
    ELSE [exc |-> "", ix |-> PyIndex(type_list, IntAt(row, 3).v)]

\* the loop "for line in atom_lines": [lines, exc], lines the sites added
atoms_of(atom_lines, style, type_list) ==
    LET one(i) == atom_of(atom_lines[i], style, type_list,
                          atom_row_type(atom_lines[i], type_list))
        Bad(i) == one(i).exc /= ""
        Row(i) == one(i).site
        Exc(i) == one(i).exc
    IN RowLoop(Len(atom_lines), Bad, Row, Exc)

atoms_result(rows) == [exc |-> rows.exc, sites |-> rows.lines]

atoms_scanned(lines, style, type_list, s) ==
    IF s.exc /= "" THEN [exc |-> s.exc, sites |-> <<>>]
    ELSE IF s.none \/ ~s.found THEN [exc |-> "UnboundLocalError", sites |-> <<>>]
    ELSE atoms_result(atoms_of(RowsAfter(lines, s.p, s.n), style, type_list))

\* _get_atoms: [exc, sites]
get_atoms(lines, style, type_list) ==
    atoms_scanned(lines, style, type_list,
        Scan(lines, LAMBDA l : HasWord(l, "atoms"), LAMBDA l : HasWord(l, "Atoms"), FALSE))

\* connection_type.capitalize()
Capitalize(kind) ==
    CASE kind = "bond" -> "Bond"
      [] kind = "angle" -> "Angle"
      [] kind = "dihedral" -> "Dihedral"
      [] kind = "improper" -> "Improper"

n_sites(kind) == CASE kind = "bond" -> 2 [] kind = "angle" -> 3 [] OTHER -> 4

\* the columns (1-based) of a coefficient row that _get_connection reads, in
\* the order it reads them, with the parameter each becomes
coeff_columns(kind) ==
    CASE kind = "bond" -> << <<"k", 2>>, <<"r_eq", 3>> >>
      [] kind = "angle" -> << <<"k", 2>>, <<"theta_eq", 3>> >>
      [] kind = "dihedral" -> << <<"k1", 2>>, <<"k2", 3>>, <<"k3", 4>>, <<"k4", 5>> >>
      [] kind = "improper" -> << <<"k", 3>>, <<"phi_eq", 4>> >>

\* the quantity _get_connection makes of the number v read for a parameter
coeff_quantity(kind, name, v, style) ==
    CASE kind = "bond" /\ name = "k" ->
            Q(v * 2, UDivSq(get_units(style, "energy"), get_units(style, "length")))
      [] kind = "bond" /\ name = "r_eq" -> Q(v, get_units(style, "length"))
      [] kind = "angle" /\ name = "k" ->
            Q(v * 2, UDivSq(get_units(style, "energy"), get_units(style, "angle")))
      [] kind = "angle" /\ name = "theta_eq" -> Q(v, get_units(style, "angle_eq"))
      [] kind = "dihedral" -> Q(v, get_units(style, "energy"))
      [] kind = "improper" /\ name = "k" ->
            Q(v * 2, UDivSq(get_units(style, "energy"), get_units(style, "energy")))
      [] kind = "improper" /\ name = "phi_eq" -> Q(v, get_units(style, "angle_eq"))

\* the loop "for line in connection_type_lines" of _get_connection over the
\* rows of a coefficient table: [lines, exc], lines the connection_type_list
connection_type_list(rows, style, kind) ==
    LET cols == coeff_columns(kind)
        val(i, c) == FloatAt(rows[i], cols[c][2])
        tExc(i) == FirstExc([c \in 1..Len(cols) |-> val(i, c)])
        tBad(i) == tExc(i) /= ""
        tRow(i) == ConnType(kind, default_parameterMaps(kind), <<>>,
                      [name \in {cols[c][1] : c \in 1..Len(cols)} |->
                          coeff_quantity(kind, name,
                              val(i, CHOOSE c \in 1..Len(cols) : cols[c][1] = name).v,
                              style)])
    IN RowLoop(Len(rows), tBad, tRow, tExc)

\* the site a data row names in column j + 2: [exc, ix]
row_site(row, sites, j) ==
    IF IntAt(row, j + 2).exc /= "" THEN [exc |-> IntAt(row, j + 2).exc, ix |-> 0]
    ELSE IF PyIndex(sites, IntAt(row, j + 2).v) = 0 THEN [exc |-> "IndexError", ix |-> 0]
    ELSE [exc |-> "", ix |-> PyIndex(sites, IntAt(row, j + 2).v)]

\* every data row taking the first row of the coefficient table
row_type_first(row, type_list) ==
    IF IntAt(row, 2).exc /= "" THEN [exc |-> IntAt(row, 2).exc, ix |-> 0]
    ELSE IF PyIndex(type_list, 1) = 0 THEN [exc |-> "IndexError", ix |-> 0]
    ELSE [exc |-> "", ix |-> 1]

\* the type a data row names in column 2: [exc, ix]
row_type(row, type_list) ==
    IF IntAt(row, 2).exc /= "" THEN [exc |-> IntAt(row, 2).exc, ix |-> 0]
    ELSE IF PyIndex(type_list, IntAt(row, 2).v) = 0 THEN [exc |-> "IndexError", ix |-> 0]
    ELSE [exc |-> "", ix |-> PyIndex(type_list, IntAt(row, 2).v)]

(***************************************************************************)
(* Connections.  A member handed to a constructor is a Site (known by its  *)
(* place in topology.sites: two references to one place are one object), a *)
(* dict to be parsed into a new Site, or an object that is no Site.        *)
(***************************************************************************)
SiteRef(i) == [k |-> "site", ix |-> i]
DictMember == [k |-> "dict", ix |-> 0]
NonSite == [k |-> "other", ix |-> 0]

\* Connection.validate_fields without the test for repeated members
validate_fields_any_members(members) ==
    IF (\A j \in 1..Len(members) : members[j].k = "dict") THEN ""
    ELSE IF \E j \in 1..Len(members) : members[j].k /= "site" THEN "TypeError"
    ELSE ""

\* Connection.validate_fields(cls, values): "" or the error raised.  Members
\* that are all dicts become new Sites, one object each.
validate_fields(members) ==
    IF (\A j \in 1..Len(members) : members[j].k = "dict") THEN ""
    ELSE IF \E j \in 1..Len(members) : members[j].k /= "site" THEN "TypeError"
    ELSE IF Cardinality({members[j] : j \in 1..Len(members)}) /= Len(members)
    THEN "GMSOError"
    ELSE ""

\* tuple(reversed(connection_members))
reversed(m) == [j \in 1..Len(m) |-> m[Len(m) + 1 - j]]

\* Dihedral.equivalent_members() returning the members alone
equivalent_members_as_given(members) == {members}

\* Dihedral.equivalent_members()
equivalent_members(members) == {members, reversed(members)}

\* one pass of the loop "for i, line in enumerate(connection_lines)", given
\* the member sites ms and the type ty the row resolves to
connection_of(ms, ty, sites, type_list) ==
    IF FirstExc(ms) /= "" THEN [exc |-> FirstExc(ms)]
    ELSE IF ty.exc /= "" THEN [exc |-> ty.exc]
    ELSE IF \E j \in 1..Len(ms) : sites[ms[j].ix].atom_type = NoType
    THEN [exc |-> "AttributeError"]
    ELSE IF validate_fields([j \in 1..Len(ms) |-> SiteRef(ms[j].ix)]) /= ""
    THEN [exc |-> validate_fields([j \in 1..Len(ms) |-> SiteRef(ms[j].ix)])]
    ELSE [exc |-> "",
          conn |-> [members |-> [j \in 1..Len(ms) |-> ms[j].ix],
                    ctype |-> [type_list[ty.ix] EXCEPT !.member_types =
                        [j \in 1..Len(ms) |-> sites[ms[j].ix].atom_type.name]]]]

\* the loop with the type of a row attached without copy.copy: the rows of
\* one type index share the annotation the last of them set
connections_shared_type(rows, sites, type_list, kind) ==
    LET one(i) == connection_of([j \in 1..n_sites(kind) |-> row_site(rows[i], sites, j)],
                                row_type(rows[i], type_list), sites, type_list)
        cBad(i) == one(i).exc /= ""
        same(i) == {h \in 1..Len(rows) : ~cBad(h) /\ rows[h][2] = rows[i][2]}
        last(i) == CHOOSE h \in same(i) : \A g \in same(i) : g <= h
        cRow(i) == [one(i).conn EXCEPT !.ctype = one(last(i)).conn.ctype]
        cExc(i) == one(i).exc
    IN RowLoop(Len(rows), cBad, cRow, cExc)

\* the loop over connection_lines: [lines, exc], lines the connections added
connections(rows, sites, type_list, kind) ==
    LET one(i) == connection_of([j \in 1..n_sites(kind) |-> row_site(rows[i], sites, j)],
                                row_type(rows[i], type_list), sites, type_list)
        cBad(i) == one(i).exc /= ""
        cRow(i) == one(i).conn
        cExc(i) == one(i).exc
    IN RowLoop(Len(rows), cBad, cRow, cExc)

\* _get_connection without its early return
connection_result_no_return(s, types, s2, conns) ==
    IF s.exc /= "" THEN [exc |-> s.exc, conns |-> <<>>]
    ELSE IF ~s.found THEN [exc |-> "UnboundLocalError", conns |-> <<>>]
    ELSE IF types.exc /= "" THEN [exc |-> types.exc, conns |-> <<>>]
    ELSE IF s2.exc /= "" THEN [exc |-> s2.exc, conns |-> <<>>]
    ELSE [exc |-> conns.exc, conns |-> conns.lines]

\* the outcome of _get_connection from its two scans s and s2, its type
\* list and its connections
connection_result(s, types, s2, conns) ==
    IF s.exc /= "" THEN [exc |-> s.exc, conns |-> <<>>]
    ELSE IF ~s.found THEN [exc |-> "", conns |-> <<>>]
    ELSE IF types.exc /= "" THEN [exc |-> types.exc, conns |-> <<>>]
    ELSE IF s2.exc /= "" THEN [exc |-> s2.exc, conns |-> <<>>]
    ELSE IF ~s2.found THEN [exc |-> "UnboundLocalError", conns |-> <<>>]
    ELSE [exc |-> conns.exc, conns |-> conns.lines]

\* the second half of _get_connection: the data section
get_connection_rows(lines, sites, kind, s, types, s2) ==
    connection_result(s, types, s2,
        connections(RowsAfter(lines, s2.p, s2.n), sites, types.lines, kind))

\* the first half of _get_connection: the coefficient table
get_connection_types(lines, sites, style, kind, s) ==
    get_connection_rows(lines, sites, kind, s,
        connection_type_list(RowsAfter(lines, s.p, s.n), style, kind),
        Scan(lines, LAMBDA l : HasWord(l, kind \o "s"),
             LAMBDA l : HasWord(l, Capitalize(kind) \o "s"), FALSE))

\* _get_connection: [exc, conns], conns the connections added to the topology
get_connection(lines, sites, style, kind) ==
    get_connection_types(lines, sites, style, kind,
        Scan(lines, LAMBDA l : HasWord(l, kind),
             LAMBDA l : HasWord(l, Capitalize(kind)), FALSE))

\* Topology(): the topology read_lammpsdata starts from
EmptyTopology ==
    [name |-> "Topology", sites |-> <<>>, bonds |-> <<>>, angles |-> <<>>,
     dihedrals |-> <<>>, impropers |-> <<>>, box |-> NoBox]

ReadFailed(exc, opened) ==
    [exc |-> exc, opened |-> opened, top |-> EmptyTopology, warn |-> FALSE]

\* "top.update_topology(); return top" of read_lammpsdata, or the first
\* exception of the parsers
read_result(box, ff, atoms, bonds, angles, dihedrals, impropers) ==
    IF FirstExc(<<box, ff, atoms, bonds, angles, dihedrals, impropers>>) /= ""
    THEN [ReadFailed(FirstExc(<<box, ff, atoms, bonds, angles, dihedrals, impropers>>), TRUE)
             EXCEPT !.warn = (box.exc = "" /\ ff.warn)]
    ELSE [exc |-> "", opened |-> TRUE, warn |-> ff.warn,
          top |-> [name |-> "Topology", sites |-> atoms.sites,
                   bonds |-> bonds.conns, angles |-> angles.conns,
                   dihedrals |-> dihedrals.conns, impropers |-> impropers.conns,
                   box |-> box.box]]

\* the four calls of _get_connection
read_connections(lines, unit_style, box, ff, atoms) ==
    read_result(box, ff, atoms,
                get_connection(lines, atoms.sites, unit_style, "bond"),
                get_connection(lines, atoms.sites, unit_style, "angle"),
                get_connection(lines, atoms.sites, unit_style, "dihedral"),
                get_connection(lines, atoms.sites, unit_style, "improper"))

\* the call of _get_atoms
read_atoms(lines, unit_style, box, ff) ==
    read_connections(lines, unit_style, box, ff, get_atoms(lines, unit_style, ff.type_list))

\* read_lammpsdata(filename, atom_style, unit_style) on file system f:
\* [exc, opened, top]
read_lammpsdata(f, atom_style, unit_style) ==
    IF atom_style /= "full" THEN ReadFailed("ValueError", FALSE)
    ELSE IF unit_style \notin UnitStyles THEN ReadFailed("ValueError", FALSE)
    ELSE IF ~f.exists THEN ReadFailed("FileNotFoundError", FALSE)
    ELSE read_atoms(f.lines, unit_style, get_box_coordinates(f.lines, unit_style),
                    get_ff_information(f.lines, unit_style))

(***************************************************************************)
(* The topologies and call arguments the model draws from.                 *)
(***************************************************************************)
LJParams(sigma, epsilon) ==
    [p \in {"sigma", "epsilon"} |->
        IF p = "sigma" THEN Q(sigma, "angstrom") ELSE Q(epsilon, "kcal/mol")]

atC == AtomType("C", Q(12011000, "amu"), Q(-180000, "elementary_charge"),
                LJParams(1000000, 1000000))
atH == AtomType("H", Q(1008000, "amu"), Q(60000, "elementary_charge"),
                LJParams(800004, 700000))
\* a second atom type of the name C, of different mass
atC13 == AtomType("C", Q(13003000, "amu"), Q(-180000, "elementary_charge"),
                  LJParams(1000000, 1000000))

\* an atom type authored in nanometres
atNm == AtomType("N", Q(14007000, "amu"), Q(0, "elementary_charge"),
                 [p \in {"sigma", "epsilon"} |->
                    IF p = "sigma" THEN Q(300000, "nm") ELSE Q(700000, "kcal/mol")])

Params2(k1, v1, k2, v2) == [p \in {k1, k2} |-> IF p = k1 THEN v1 ELSE v2]

MkBondType(v, mt) ==
    ConnType("bond", "LAMMPSHarmonicBondPotential", mt,
        IF v = 1
        THEN Params2("k", Q(340000000, "kcal/mol/angstrom**2"), "r_eq", Q(1090000, "angstrom"))
        ELSE Params2("k", Q(268000000, "kcal/mol/angstrom**2"), "r_eq", Q(1529000, "angstrom")))

MkAngleType(v, mt) ==
    ConnType("angle", "LAMMPSHarmonicAnglePotential", mt,
        IF v = 1
        THEN Params2("k", Q(37500000, "kcal/mol/radian**2"), "theta_eq", Q(110700000, "degree"))
        ELSE Params2("k", Q(33000000, "kcal/mol/radian**2"), "theta_eq", Q(107800000, "degree")))

\* variants 1 and 2 are OPLS torsions, 3 is a Ryckaert-Bellemans torsion, 4 a
\* periodic torsion
MkDihedralType(v, mt) ==
    CASE v = 3 ->
           ConnType("dihedral", "RyckaertBellemansTorsionPotential", mt,
               [p \in {"c0", "c1", "c2", "c3", "c4", "c5"} |->
                   Q(CASE p = "c1" -> -2000000
                       [] p = "c2" -> 1000000
                       [] p = "c3" -> -400000
                       [] p = "c4" -> -800000
                       [] OTHER -> 0, "kcal/mol")])
      [] v = 4 ->
           ConnType("dihedral", "PeriodicTorsionPotential", mt,
               [p \in {"k", "n", "phi_eq"} |->
                   CASE p = "k" -> Q(1400000, "kcal/mol")
                     [] p = "n" -> Q(3000000, "dimensionless")
                     [] p = "phi_eq" -> Q(180000000, "degree")])
      [] OTHER ->
           ConnType("dihedral", "OPLSTorsionPotential", mt,
               [p \in {"k1", "k2", "k3", "k4"} |->
                   Q(CASE p = "k1" -> IF v = 1 THEN 1300000 ELSE 0
                       [] p = "k2" -> -50000
                       [] p = "k3" -> IF v = 1 THEN 200000 ELSE 300000
                       [] p = "k4" -> 0, "kcal/mol")])

MkImproperType(v, mt) ==
    ConnType("improper", "HarmonicImproperPotential", mt,
        IF v = 1
        THEN Params2("k", Q(1100000, "kcal/mol/radian**2"), "phi_eq", Q(180000000, "degree"))
        ELSE Params2("k", Q(2500000, "kcal/mol/radian**2"), "phi_eq", Q(0, "degree")))

MkType(kind, v, mt) ==
    CASE v = 0 -> NoType
      [] kind = "bond" -> MkBondType(v, mt)
      [] kind = "angle" -> MkAngleType(v, mt)
      [] kind = "dihedral" -> MkDihedralType(v, mt)
      [] kind = "improper" -> MkImproperType(v, mt)

\* a shape: the number of sites and, per kind, <<members, type variant>>
Shape(n, b, a, d, i) == [n |-> n, bonds |-> b, angles |-> a, dihedrals |-> d, impropers |-> i]

Chain3 == << <<<<1, 2>>, 1>>, <<<<2, 3>>, 1>> >>
Chain4 == << <<<<1, 2>>, 1>>, <<<<2, 3>>, 1>>, <<<<3, 4>>, 2>> >>
Angles4 == << <<<<1, 2, 3>>, 1>>, <<<<2, 3, 4>>, 1>> >>

SmallShapes ==
    { Shape(1, <<>>, <<>>, <<>>, <<>>),
      Shape(2, <<>>, <<>>, <<>>, <<>>),
      Shape(2, << <<<<1, 2>>, 1>> >>, <<>>, <<>>, <<>>),
      Shape(2, << <<<<2, 1>>, 1>> >>, <<>>, <<>>, <<>>),
      Shape(2, << <<<<1, 2>>, 0>> >>, <<>>, <<>>, <<>>) }

BigShapes ==
    { Shape(3, Chain3, <<>>, <<>>, <<>>),
      Shape(3, << <<<<1, 2>>, 1>>, <<<<2, 3>>, 2>> >>, <<>>, <<>>, <<>>),
      Shape(3, Chain3, << <<<<1, 2, 3>>, 1>> >>, <<>>, <<>>),
      Shape(3, Chain3, << <<<<1, 2, 3>>, 1>>, <<<<2, 1, 3>>, 2>> >>, <<>>, <<>>),
      Shape(3, Chain3, << <<<<1, 2, 3>>, 0>> >>, <<>>, <<>>),
      Shape(4, Chain4, Angles4,
            << <<<<1, 2, 3, 4>>, 1>>, <<<<2, 1, 3, 4>>, 2>> >>, <<>>),
      Shape(4, Chain4, <<>>, <<>>, << <<<<1, 2, 3, 4>>, 1>> >>),
      Shape(4, Chain4, <<>>, << <<<<1, 2, 3, 4>>, 3>>, <<<<4, 3, 2, 1>>, 3>> >>, <<>>),
      Shape(4, Chain4, <<>>, << <<<<1, 2, 3, 4>>, 4>> >>, <<>>),
      Shape(4, Chain4, Angles4, << <<<<4, 3, 2, 1>>, 1>> >>,
            << <<<<1, 2, 3, 4>>, 1>>, <<<<2, 1, 3, 4>>, 2>> >>) }

OrthoBox == Box(<<Q(10000000, "angstrom"), Q(12000000, "angstrom"),
                  Q(15500000, "angstrom")>>, RightAngles)

\* boxes with edges b = (3, 4, 0); b = (-3, 4, 0), c = (0, 3, 4); and
\* b = (3, 4, 0), c = (3, 0, 4)
TriclinicBoxes ==
    { Box(<<Q(10000000, "angstrom"), Q(5000000, "angstrom"), Q(15500000, "angstrom")>>,
          <<Q(90000000, "degree"), Q(90000000, "degree"), Q(53130102, "degree")>>),
      Box(<<Q(10000000, "angstrom"), Q(5000000, "angstrom"), Q(5000000, "angstrom")>>,
          <<Q(61314598, "degree"), Q(90000000, "degree"), Q(126869898, "degree")>>),
      Box(<<Q(10000000, "angstrom"), Q(5000000, "angstrom"), Q(5000000, "angstrom")>>,
          <<Q(68899804, "degree"), Q(53130102, "degree"), Q(53130102, "degree")>>) }

\* special: "" | "untyped" (site 1 has no atom type) | "dup" (site 1 has
\* the second atom type of the name C)
MkTop(sh, typing, special) ==
    LET mkSite(i) ==
            [atom_type |-> IF i = 1 /\ special = "untyped" THEN NoType
                           ELSE IF i = 1 /\ special = "dup" THEN atC13
                           ELSE typing[i],
             charge |-> typing[i].charge,
             position |-> <<Q(i * 1500000, "angstrom"), Q(0, "angstrom"),
                            Q(-250001, "angstrom")>>,
             molecule |-> 1]
        names(m) == [j \in 1..Len(m) |-> typing[m[j]].name]
        mk(kind, cs) == [i \in 1..Len(cs) |->
            [members |-> cs[i][1], ctype |-> MkType(kind, cs[i][2], names(cs[i][1]))]]
    IN [name |-> "Topology",
        sites |-> [i \in 1..sh.n |-> mkSite(i)],
        bonds |-> mk("bond", sh.bonds),
        angles |-> mk("angle", sh.angles),
        dihedrals |-> mk("dihedral", sh.dihedrals),
        impropers |-> mk("improper", sh.impropers),
        box |-> OrthoBox]

SmallTypings == {<<atC, atH>>, <<atH, atC>>, <<atC, atC>>}
BigTypings == {<<atH, atC, atC, atH>>, <<atC, atC, atC, atC>>, <<atC, atH, atH, atC>>,
               <<atH, atC, atH, atC>>, <<atC, atC, atH, atH>>}

SmallTopologies ==
    { MkTop(sh, typing, "") : sh \in SmallShapes, typing \in SmallTypings }
    \cup { MkTop(Shape(2, << <<<<1, 2>>, 1>> >>, <<>>, <<>>, <<>>), typing, special) :
              typing \in {<<atC, atH>>, <<atC, atC>>}, special \in {"untyped", "dup"} }
    \cup { MkTop(Shape(0, <<>>, <<>>, <<>>, <<>>), <<>>, "") }
    \cup { MkTop(Shape(2, << <<<<1, 2>>, 1>> >>, <<>>, <<>>, <<>>), <<atNm, atH>>, "") }
    \cup { [MkTop(Shape(2, << <<<<1, 2>>, 1>> >>, <<>>, <<>>, <<>>), <<atC, atH>>, "")
              EXCEPT !.box = b] : b \in TriclinicBoxes }

BigTopologies == { MkTop(sh, typing, "") : sh \in BigShapes, typing \in BigTypings }

Args(as, us, sp, su, cf) ==
    [atom_style |-> as, unit_style |-> us, strict_potentials |-> sp,
     strict_units |-> su, lj_cfactorsDict |-> cf]

EmptyDict == Dict([x \in {} |-> Q(0, "")])
PartialDict == Dict([x \in {"length", "energy"} |->
                      IF x = "length" THEN Q(1000000, "angstrom") ELSE Q(1000000, "kcal/mol")])
BogusDict == Dict([x \in {"length", "energy", "mass", "charge", "time"} |->
                      CASE x = "length" -> Q(1000000, "angstrom")
                        [] x = "energy" -> Q(1000000, "kcal/mol")
                        [] x = "mass" -> Q(12011000, "amu")
                        [] x = "charge" -> Q(1000000, "elementary_charge")
                        [] x = "time" -> Q(1000000, "fs")])

\* reference factors with a key write_lammpsdata does not know and without
\* three of those it does
UnknownKeyDict == Dict([x \in {"length", "time"} |->
                      IF x = "length" THEN Q(1000000, "angstrom") ELSE Q(1000000, "fs")])

\* the arguments of the calls that meet a missing directory or an unknown key
LateErrorArgs == {Args("full", "real", FALSE, FALSE, NoDict),
                  Args("full", "lj", FALSE, FALSE, UnknownKeyDict),
                  Args("full", "lj", TRUE, FALSE, UnknownKeyDict)}

\* the arguments every topology is written with
CommonArgs == {Args("full", "real", sp, FALSE, NoDict) : sp \in BOOLEAN}

ArgSet ==
    {Args(as, "real", sp, FALSE, NoDict) : as \in AtomStyles, sp \in BOOLEAN}
    \cup {Args("full", "real", FALSE, TRUE, NoDict),
          Args("full", "real", FALSE, FALSE, EmptyDict),
          Args("full", "real", FALSE, FALSE, PartialDict),
          Args("dpd", "real", FALSE, FALSE, NoDict),
          Args("full", "bogus", FALSE, FALSE, NoDict)}
    \cup {Args("full", "lj", FALSE, su, cf) :
            su \in BOOLEAN, cf \in {NoDict, PartialDict, BogusDict}}

Users == {"alice", "None"}

NoFile == [parent |-> TRUE, exists |-> FALSE, lines |-> <<>>]
\* a path whose parent directory does not exist
NoParent == [parent |-> FALSE, exists |-> FALSE, lines |-> <<>>]
OldFile == [parent |-> TRUE, exists |-> TRUE, lines |-> << <<W("old"), W("content")>> >>]

NoRead == [done |-> FALSE, exc |-> "", opened |-> FALSE, top |-> EmptyTopology,
           atom_style |-> "", unit_style |-> "", of |-> 0, warn |-> FALSE]

\* no direct call on a connection has been made
NoCall == [op |-> "none", kind |-> "", members |-> <<>>, exc |-> "", equivalent |-> {}]

\* the members a caller hands to the constructor of a connection of a kind:
\* the first two are any Site of three, a dict or no Site at all, the rest
\* are the Sites of their own place
MemberPool(kind) ==
    { ms \in [1..n_sites(kind) ->
                {SiteRef(1), SiteRef(2), SiteRef(3), SiteRef(4), DictMember, NonSite}] :
        \A j \in 3..n_sites(kind) : ms[j] = SiteRef(j) }

\* the (atom_style, unit_style) pairs the caller reads a file with
ReadStyles(a) == {<<"full", a.unit_style>>, <<"atomic", "real">>, <<"full", "bogus">>}

\* the attributes the caller gives to the AtomType it compares
Metas == {NoMeta, [NoMeta EXCEPT !.doi = "10.1000/a"],
          [NoMeta EXCEPT !.overrides = {"CT"}]}

\* the objects a caller compares an AtomType with: the AtomType itself, an
\* AtomType constructed apart with the same content or with one attribute
\* changed, and objects that are no AtomType
Others(self) ==
    LET at == [name |-> self.name, mass |-> self.mass, charge |-> self.charge,
               expression |-> self.expression, parameters |-> self.parameters]
        m == [atomclass |-> self.atomclass, doi |-> self.doi,
              overrides |-> self.overrides, definition |-> self.definition,
              description |-> self.description]
        same == AtomTypeObject(2, at, m)
    IN {self, same,
        [same EXCEPT !.name = "X"],
        [same EXCEPT !.mass = Q(@.v + 1000, @.u)],
        [same EXCEPT !.charge = Q(@.v + 1000, @.u)],
        [same EXCEPT !.expression = "epsilon*sigma/r"],
        [same EXCEPT !.independent_variables = {"x"}],
        [same EXCEPT !.parameters = [k \in {"sigma"} |-> @[k]]],
        [same EXCEPT !.parameters["epsilon"] = Q(@.v + 1000, @.u)],
        [same EXCEPT !.parameters["sigma"] =
            IF @.u = "nm" THEN Q(@.v * 10, "angstrom") ELSE Q(@.v + 1000, @.u)],
        [same EXCEPT !.atomclass = "CT"],
        [same EXCEPT !.doi = "10.1000/b"],
        [same EXCEPT !.overrides = @ \cup {"CA"}],
        [same EXCEPT !.definition = "[C]"],
        [same EXCEPT !.description = "carbon"],
        [same EXCEPT !.cls = "BondType"],
        [cls |-> "str", id |-> 3, value |-> self.name],
        [cls |-> "NoneType", id |-> 4]}

InitEnv == [user |-> "alice", clock |-> 0]

\* the topology built with sites i and i + 1 added in the other order
SwapSites(t, i) ==
    LET pi(x) == IF x = i THEN i + 1 ELSE IF x = i + 1 THEN i ELSE x
        re(cs) == [c \in 1..Len(cs) |->
                     [cs[c] EXCEPT !.members = [j \in 1..Len(@) |-> pi(@[j])]]]
    IN [t EXCEPT !.sites = [x \in 1..Len(@) |-> @[pi(x)]],
                 !.bonds = re(@), !.angles = re(@),
                 !.dihedrals = re(@), !.impropers = re(@)]

\* the topology built with connections i and i + 1 of a kind added in the
\* other order
SwapConns(t, kind, i) ==
    LET pi(x) == IF x = i THEN i + 1 ELSE IF x = i + 1 THEN i ELSE x
        cs == Conns(t, kind)
    IN WithConns(t, kind, [x \in 1..Len(cs) |-> cs[pi(x)]])

\* the position of the first line that starts with the words w1 w2 (w2 = ""
\* when the first word alone names the line), 0 if there is none
LinePos(lines, w1, w2) ==
    LET hit(x) == /\ Len(lines[x]) >= 1
                  /\ lines[x][1] = W(w1)
                  /\ w2 /= "" => (Len(lines[x]) >= 2 /\ lines[x][2] = W(w2))
    IN IF \E x \in 1..Len(lines) : hit(x)
       THEN CHOOSE x \in 1..Len(lines) : hit(x) /\ \A y \in 1..(x - 1) : ~hit(y)
       ELSE 0

\* row number r of the table or section whose title line is at position p
TableRow(lines, p, r) == lines[p + 1 + r]

\* the number of rows of the table or section whose title line is at p: the
\* lines from p + 2 up to the next blank line or the end of the file
TableLen(lines, p) ==
    LET ends == {x \in (p + 2)..Len(lines) : lines[x] = Blank}
    IN IF ends = {} THEN Len(lines) - (p + 1)
       ELSE (CHOOSE x \in ends : \A y \in ends : x <= y) - (p + 2)

(***************************************************************************)
(* Files the reader meets that this writer did not produce: the file of    *)
(* one topology as another tool, or a hand, would have left it.            *)
(***************************************************************************)
BaseTop ==
    MkTop(Shape(4, Chain4, Angles4, << <<<<4, 3, 2, 1>>, 1>> >>,
                << <<<<1, 2, 3, 4>>, 1>>, <<<<2, 1, 3, 4>>, 2>> >>),
          <<atH, atC, atC, atH>>, "")

BaseArgs == Args("full", "real", FALSE, FALSE, NoDict)

BaseFile == write_lammpsdata(BaseTop, BaseArgs, InitEnv, NoFile).fs.lines

\* the Pair Coeffs rows without their trailing comment ("three"), or with a
\* cutoff in its place ("cutoff")
PairRowsAs(lines, mode) ==
    LET p == LinePos(lines, "Pair", "Coeffs")
        n == TableLen(lines, p)
    IN [x \in 1..Len(lines) |->
          IF mode = "asis" \/ x < p + 2 \/ x > p + 1 + n THEN lines[x]
          ELSE IF mode = "three" THEN SubSeq(lines[x], 1, 3)
          ELSE SubSeq(lines[x], 1, 3) \o <<F(2500000)>>]

\* the Improper Coeffs rows with the style word between index and k
ImproperRowsWithStyle(lines) ==
    LET p == LinePos(lines, "Improper", "Coeffs")
        n == TableLen(lines, p)
    IN [x \in 1..Len(lines) |->
          IF p = 0 \/ x < p + 2 \/ x > p + 1 + n THEN lines[x]
          ELSE <<lines[x][1], W("harmonic")>> \o Tail(lines[x])]

\* the file without its "<N> <kind> types" line
WithoutTypesLine(lines, kind) ==
    IF kind = "none" THEN lines
    ELSE SelectSeq(lines, LAMBDA l : ~(HasWord(l, kind) /\ HasWord(l, "types")))

\* the first row of the data section of a kind naming its first site twice
WithRepeatedSite(lines, kind) ==
    IF kind = "none" \/ LinePos(lines, Capitalize(kind) \o "s", "") = 0 THEN lines
    ELSE LET x == LinePos(lines, Capitalize(kind) \o "s", "") + 2
         IN [lines EXCEPT ![x] = [c \in 1..Len(lines[x]) |->
                                    IF c = 4 THEN lines[x][3] ELSE lines[x][c]]]

ForeignLines ==
    { WithRepeatedSite(WithoutTypesLine(
          PairRowsAs(ImproperRowsWithStyle(BaseFile), pm), mk), rk) :
        pm \in {"asis", "three", "cutoff"},
        mk \in {"none", "bond", "angle", "dihedral", "improper"},
        rk \in {"none", "bond", "dihedral"} }

\* the file cut off after the first rows rows of a section
CutAfter(lines, section, rows) ==
    SubSeq(lines, 1, LinePos(lines, section, "") + 1 + rows)

\* files that end in the middle of the Atoms or of the Bonds section
TruncatedLines ==
    { CutAfter(ImproperRowsWithStyle(BaseFile), "Atoms", 2),
      CutAfter(ImproperRowsWithStyle(BaseFile), "Bonds", 1) }

\* title lines another tool, or a hand, gives to a data file
Titles == { <<W("LAMMPS"), W("data"), W("file")>>,
            <<W("atoms"), W("of"), W("a"), W("chain")>>,
            <<W("chain"), W("with"), W("one"), W("Bond"), W("type")>>,
            <<W("box"), W("from"), W("xlo"), W("to"), W("xhi")>> }

\* the file under another title line
WithTitle(lines, title) == [lines EXCEPT ![1] = title]

TitledLines == { WithTitle(ImproperRowsWithStyle(BaseFile), t) : t \in Titles }

ForeignFiles ==
    { [parent |-> TRUE, exists |-> TRUE, lines |-> l] :
        l \in ForeignLines \cup TruncatedLines \cup TitledLines }

(***************************************************************************)
(* The state machine: a caller that owns a topology, a set of call         *)
(* arguments and a file path.  It writes the topology, and then reads the  *)
(* file back, or writes again later, or writes again after building the    *)
(* same topology in another order.                                         *)
(***************************************************************************)
Init ==
    /\ \/ top \in SmallTopologies /\ args \in ArgSet /\ fs \in {NoFile, OldFile}
       \/ top \in BigTopologies /\ args \in CommonArgs /\ fs = NoFile
       \/ top = BaseTop /\ args = BaseArgs /\ fs \in ForeignFiles
       \/ top \in BigTopologies /\ args \in LateErrorArgs /\ fs = NoParent
    /\ env = InitEnv
    /\ writes = <<>>
    /\ rd = NoRead
    /\ nperm = 0
    /\ api = NoCall

\* the caller calls write_lammpsdata(top, path, **args)
Write ==
    /\ api = NoCall
    /\ Len(writes) < MaxWrites
    /\ ~rd.done
    /\ \E r \in {write_lammpsdata(top, args, env, fs)} :
          /\ top' = r.top
          /\ args' = [args EXCEPT !.lj_cfactorsDict = r.cf]
          /\ fs' = r.fs
          /\ writes' = Append(writes,
                [exc |-> r.exc, opened |-> r.opened, perms |-> nperm,
                 lines |-> r.fs.lines, used |-> r.used, handle |-> r.handle])
    /\ nperm' = 0
    /\ UNCHANGED <<env, rd, api>>

\* the caller calls read_lammpsdata(path, atom_style, unit_style)
Read ==
    /\ api = NoCall
    /\ ~rd.done
    /\ Len(writes) <= 1
    /\ nperm = 0
    /\ env = InitEnv
    /\ \E st \in ReadStyles(args) :
          \E r \in {read_lammpsdata(fs, st[1], st[2])} :
             rd' = [done |-> TRUE, exc |-> r.exc, opened |-> r.opened, top |-> r.top,
                    atom_style |-> st[1], unit_style |-> st[2], of |-> Len(writes),
                    warn |-> r.warn]
    /\ UNCHANGED <<top, args, env, fs, writes, nperm, api>>

\* time passes between two calls
Tick ==
    /\ Len(writes) = 1
    /\ ~rd.done
    /\ nperm = 0
    /\ env.clock < MaxClock
    /\ env' = [env EXCEPT !.clock = @ + 1]
    /\ UNCHANGED <<top, args, fs, writes, rd, nperm, api>>

\* the process environment changes between two calls
SetUser ==
    /\ Len(writes) = 1
    /\ ~rd.done
    /\ nperm = 0
    /\ \E u \in Users \ {env.user} : env' = [env EXCEPT !.user = u]
    /\ UNCHANGED <<top, args, fs, writes, rd, nperm, api>>

\* the caller builds the same topology with two sites added in the other order
PermuteSites ==
    /\ Len(writes) = 1
    /\ ~rd.done
    /\ env = InitEnv
    /\ nperm < MaxPerms
    /\ \E i \in 1..(Len(top.sites) - 1) : top' = SwapSites(top, i)
    /\ nperm' = nperm + 1
    /\ UNCHANGED <<args, env, fs, writes, rd, api>>

\* the caller builds the same topology with two connections of a kind added
\* in the other order
PermuteConns ==
    /\ Len(writes) = 1
    /\ ~rd.done
    /\ env = InitEnv
    /\ nperm < MaxPerms
    /\ \E x \in 1..4 : \E i \in 1..(Len(Conns(top, Kinds[x])) - 1) :
          top' = SwapConns(top, Kinds[x], i)
    /\ nperm' = nperm + 1
    /\ UNCHANGED <<args, env, fs, writes, rd, api>>

\* the caller constructs a Bond, Angle, Dihedral or Improper from sites of
\* the topology (or from what is no site), before any file is written
Construct ==
    /\ api = NoCall
    /\ writes = <<>> /\ ~rd.done /\ ~fs.exists
    /\ Len(top.sites) >= 4
    /\ \E x \in 1..4 : \E ms \in MemberPool(Kinds[x]) :
          api' = [op |-> "Connection", kind |-> Kinds[x], members |-> ms,
                  exc |-> validate_fields(ms), equivalent |-> {}]
    /\ UNCHANGED <<top, args, env, fs, writes, rd, nperm>>

\* the caller asks a dihedral of the topology for its equivalent members
EquivalentMembers ==
    /\ api = NoCall
    /\ writes = <<>> /\ ~rd.done /\ ~fs.exists
    /\ \E i \in 1..Len(top.dihedrals) :
          api' = [op |-> "equivalent_members", kind |-> "dihedral",
                  members |-> top.dihedrals[i].members, exc |-> "",
                  equivalent |-> equivalent_members(top.dihedrals[i].members)]
    /\ UNCHANGED <<top, args, env, fs, writes, rd, nperm>>

\* the caller compares the AtomType of a site with another object
Equals ==
    /\ api = NoCall
    /\ writes = <<>> /\ ~rd.done /\ ~fs.exists
    /\ Len(top.bonds) >= 3
    /\ \E i \in 1..Len(top.sites) : \E m \in Metas :
          /\ top.sites[i].atom_type /= NoType
          /\ \E o \in Others(AtomTypeObject(1, top.sites[i].atom_type, m)) :
                api' = [op |-> "__eq__",
                        self |-> AtomTypeObject(1, top.sites[i].atom_type, m),
                        other |-> o,
                        result |-> atom_type_eq(
                            AtomTypeObject(1, top.sites[i].atom_type, m), o)]
    /\ UNCHANGED <<top, args, env, fs, writes, rd, nperm>>

\* the dimensions a caller asks get_units for
Dimensions == {"length", "energy", "mass", "charge", "angle", "angle_eq"}

\* the caller asks for the unit of a dimension under a unit style
GetUnits ==
    /\ api = NoCall
    /\ writes = <<>> /\ ~rd.done /\ ~fs.exists
    /\ Len(top.bonds) >= 3
    /\ \E style \in UnitStyles : \E dim \in Dimensions :
          api' = [op |-> "get_units", style |-> style, dimension |-> dim,
                  result |-> get_units(style, dim)]
    /\ UNCHANGED <<top, args, env, fs, writes, rd, nperm>>

\* the caller clones the AtomType of a site
Clone ==
    /\ api = NoCall
    /\ writes = <<>> /\ ~rd.done /\ ~fs.exists
    /\ Len(top.bonds) >= 3
    /\ \E i \in 1..Len(top.sites) : \E m \in Metas :
          /\ top.sites[i].atom_type /= NoType
          /\ api' = [op |-> "clone",
                     self |-> AtomTypeObject(1, top.sites[i].atom_type, m),
                     other |-> clone(AtomTypeObject(1, top.sites[i].atom_type, m), 2),
                     result |-> TRUE]
    /\ UNCHANGED <<top, args, env, fs, writes, rd, nperm>>

Next ==
    \/ Write \/ Read \/ Tick \/ SetUser \/ PermuteSites \/ PermuteConns
    \/ Construct \/ EquivalentMembers \/ Equals \/ Clone \/ GetUnits

Spec == Init /\ [][Next]_vars

(***************************************************************************)
(* What the properties below speak about.                                  *)
(***************************************************************************)
\* the first call of write_lammpsdata returned, with atom_style full and
\* unit_style real
WroteFullReal ==
    /\ Len(writes) >= 1
    /\ writes[1].opened
    /\ writes[1].exc = ""
    /\ args.atom_style = "full"
    /\ args.unit_style = "real"

\* the file of the first write was read back with atom_style full and the
\* unit_style it was written with
ReadBack ==
    /\ rd.done
    /\ rd.of = 1
    /\ rd.atom_style = "full"
    /\ rd.unit_style = args.unit_style

Reverse(m) == [j \in 1..Len(m) |-> m[Len(m) + 1 - j]]

\* i and j are of the same type in xs exactly when they are in ys
SameTypeRelation(xs, ys) ==
    /\ Len(xs) = Len(ys)
    /\ \A i, j \in 1..Len(xs) : (xs[i] = xs[j]) <=> (ys[i] = ys[j])

SiteTypes(t) == [i \in 1..Len(t.sites) |-> t.sites[i].atom_type]
ConnTypesOf(t, kind) == [i \in 1..Len(Conns(t, kind)) |-> Conns(t, kind)[i].ctype]
MembersOf(t, kind) == [i \in 1..Len(Conns(t, kind)) |-> Conns(t, kind)[i].members]

\* every bond of the topology has the bond type k = 340 kcal/mol/A^2,
\* r_eq = 1.09 A
OneBondType340 ==
    /\ top.bonds /= <<>>
    /\ \A i \in 1..Len(top.bonds) :
          /\ top.bonds[i].ctype /= NoType
          /\ top.bonds[i].ctype.parameters["k"] = Q(340000000, "kcal/mol/angstrom**2")
          /\ top.bonds[i].ctype.parameters["r_eq"] = Q(1090000, "angstrom")

\* C1: for a topology with one bond type (k = 340, r_eq = 1.09) written with
\* unit_style real, the Bond Coeffs row carries k doubled (680.0) and reading
\* the file back yields a bond type whose k is 340 again.
C1_BondKDoubledThenRecovered ==
    (WroteFullReal /\ OneBondType340) =>
        /\ TableRow(writes[1].lines, LinePos(writes[1].lines, "Bond", "Coeffs"), 1)[2]
              = F(680000000)
        /\ ReadBack =>
              /\ rd.exc = ""
              /\ \A i \in 1..Len(rd.top.bonds) :
                    rd.top.bonds[i].ctype.parameters["k"].v = 340000000

\* C2: for every fully typed topology written with atom_style full, reading
\* the file back returns a topology with the same number of sites, bonds,
\* angles, dihedrals and impropers, the same member site indices in the same
\* order in every connection, and the same same-type relation among sites and
\* among the connections of each kind.
C2_RoundTripKeepsStructure ==
    (WroteFullReal /\ is_fully_typed(top) /\ ReadBack) =>
        /\ rd.exc = ""
        /\ Len(rd.top.sites) = Len(top.sites)
        /\ SameTypeRelation(SiteTypes(top), SiteTypes(rd.top))
        /\ \A x \in 1..4 :
              /\ MembersOf(rd.top, Kinds[x]) = MembersOf(top, Kinds[x])
              /\ SameTypeRelation(ConnTypesOf(top, Kinds[x]), ConnTypesOf(rd.top, Kinds[x]))

\* the Pair Coeffs row that the Atoms row of site i refers to
PairRowOfSite(lines, i) ==
    TableRow(lines, LinePos(lines, "Pair", "Coeffs"),
             TableRow(lines, LinePos(lines, "Atoms", ""), i)[3].n)

\* C3: every Pair Coeffs row the writer emits is accepted by the reader:
\* after write-then-read each atom type's epsilon and sigma are the written
\* values, not the AtomType defaults.
C3_PairCoeffsReadBack ==
    (WroteFullReal /\ is_fully_typed(top) /\ ReadBack /\ rd.exc = "") =>
        \A i \in 1..Len(rd.top.sites) :
            /\ rd.top.sites[i].atom_type.parameters["epsilon"].v
                  = FloatOf(PairRowOfSite(writes[1].lines, i)[2])
            /\ rd.top.sites[i].atom_type.parameters["sigma"].v
                  = FloatOf(PairRowOfSite(writes[1].lines, i)[3])
            /\ rd.top.sites[i].atom_type.parameters /= AtomTypeDefaultParams

\* C4: for a topology with improper types, the columns of the Improper
\* Coeffs rows the writer emits are the columns the reader takes k and phi_eq
\* from: write-then-read completes and recovers each improper type's k and
\* phi_eq.
C4_ImproperCoeffsReadBack ==
    (WroteFullReal /\ top.impropers /= <<>> /\ ReadBack) =>
        /\ rd.exc = ""
        /\ Len(rd.top.impropers) = Len(top.impropers)
        /\ \A i \in 1..Len(top.impropers) :
              /\ rd.top.impropers[i].ctype.parameters["k"].v
                    = top.impropers[i].ctype.parameters["k"].v
              /\ rd.top.impropers[i].ctype.parameters["phi_eq"].v
                    = top.impropers[i].ctype.parameters["phi_eq"].v

\* the last call of write_lammpsdata was made on the topology and with the
\* arguments the caller holds now
LastWrite == writes[Len(writes)]
LastWriteOfTop == Len(writes) >= 1 /\ nperm = 0

\* two calls of write_lammpsdata were made on the same topology, built once
SameTopologyTwice == Len(writes) = 2 /\ writes[2].perms = 0

\* C5 (as stated): calling write_lammpsdata twice on the same unmodified
\* topology with the same arguments produces byte-identical files, whatever
\* the time of the two calls and the process environment.
C5_RewriteByteIdentical ==
    SameTopologyTwice => writes[1].lines = writes[2].lines

\* C5 (amended): the two files are identical in every line except the first,
\* the title line, which carries the user name of the environment and the
\* time of the call.
C5_RewriteIdenticalBelowTitle ==
    SameTopologyTwice =>
        /\ writes[1].exc = writes[2].exc
        /\ Len(writes[1].lines) = Len(writes[2].lines)
        /\ \A x \in 2..Len(writes[1].lines) : writes[1].lines[x] = writes[2].lines[x]

\* two completed writes of the same topology whose title lines differ
C5_TitlesDiffer ==
    /\ SameTopologyTwice
    /\ writes[1].opened /\ writes[1].exc = ""
    /\ writes[2].opened /\ writes[2].exc = ""
    /\ writes[1].lines[1] /= writes[2].lines[1]
    /\ Len(writes[2].lines) > 20

\* C6: permuting the construction order of the sites or connections of a
\* topology before writing yields byte-identical output: the file written
\* after the permutation equals the file written before it (both calls are
\* made at the same time by the same user).
C6_OrderIndependentOutput ==
    (Len(writes) = 2 /\ writes[2].perms > 0) => writes[1].lines = writes[2].lines

\* row r of the table titled at position p, or the empty line when the file
\* has no such row
RowOrNone(lines, p, r) ==
    IF p > 0 /\ r >= 1 /\ p + 1 + r <= Len(lines) THEN lines[p + 1 + r] ELSE <<>>

\* the last n words of a row: the type names of its comment
CommentNames(row, n) == [j \in 1..n |-> row[Len(row) - n + j].s]

\* the row is row number tix of its table and its comment names the types
RowIs(row, tix, names) ==
    /\ Len(row) > Len(names)
    /\ row[1] = I(tix)
    /\ CommentNames(row, Len(names)) = names

\* the column of an Atoms row that holds the type index
TypeCol == IF args.atom_style \in {"full", "molecular"} THEN 3 ELSE 2

\* the first connection type of the topology with the member names key
FirstWithKey(kind, key) ==
    LET ts == conn_types(top, kind)
    IN ts[CHOOSE i \in 1..Len(ts) :
             /\ sort_by_types(ts[i]) = key
             /\ \A j \in 1..(i - 1) : sort_by_types(ts[j]) /= key]

\* the Atoms row of every site refers to the Masses row and the Pair Coeffs
\* row of that number, and both name the site's atom type
AtomRowsMatch(lines) ==
    \A i \in 1..Len(top.sites) :
        LET row == RowOrNone(lines, LinePos(lines, "Atoms", ""), i)
            tix == IF Len(row) >= TypeCol THEN row[TypeCol].n ELSE 0
            name == <<top.sites[i].atom_type.name>>
        IN /\ RowIs(RowOrNone(lines, LinePos(lines, "Masses", ""), tix), tix, name)
           /\ RowIs(RowOrNone(lines, LinePos(lines, "Pair", "Coeffs"), tix), tix, name)

\* the data row of every connection of a kind refers to the row of that
\* number in the kind's coefficient table, and that row is the one emitted
\* for the connection's type: its comment names the member types of the
\* type (an Improper Coeffs row has no comment: it carries the parameters of
\* the type)
ConnRowsMatch(lines, kind) ==
    \A i \in 1..Len(Conns(top, kind)) :
        LET ty == Conns(top, kind)[i].ctype
            row == RowOrNone(lines, LinePos(lines, SectionName(kind), ""), i)
            tix == IF Len(row) >= 2 THEN row[2].n ELSE 0
            coeff == RowOrNone(lines, LinePos(lines, Capitalize(kind), "Coeffs"), tix)
        IN IF kind = "improper"
           THEN coeff = <<I(tix)>>
                        \o CoeffCols(FirstWithKey(kind, sort_by_types(ty)).parameters,
                                     <<"k", "phi_eq">>, args.unit_style, NoDict, 6, TRUE).toks
           ELSE /\ Len(coeff) > Len(ty.member_types)
                /\ coeff[1] = I(tix)
                /\ sort_by_types([kind |-> kind, member_types |->
                                    CommentNames(coeff, Len(ty.member_types))])
                      = sort_by_types(ty)

SectionWords == {"Masses", "Pair", "Bond", "Angle", "Dihedral", "Improper",
                 "Atoms", "Bonds", "Angles", "Dihedrals", "Impropers"}

\* the section a line is the title of, "" when it is not a section title
SectionTitle(line) ==
    IF Len(line) >= 1 /\ line[1].k = "w" /\ line[1].s \in SectionWords
    THEN IF Len(line) >= 2 /\ line[2] = W("Coeffs")
         THEN line[1].s \o " Coeffs" ELSE line[1].s
    ELSE ""

\* the section titles of a file, in the order of the file
SectionsOf(lines) ==
    LET ts == SelectSeq(lines, LAMBDA l : SectionTitle(l) /= "")
    IN [i \in 1..Len(ts) |-> SectionTitle(ts[i])]

IsPrefix(a, b) == Len(a) <= Len(b) /\ \A i \in 1..Len(a) : a[i] = b[i]

\* the sections of the file of a topology, in the fixed order
ExpectedSections(t) ==
    LET typed(kind) == \E i \in 1..Len(Conns(t, kind)) : Conns(t, kind)[i].ctype /= NoType
        coeff(kind) == IF is_fully_typed(t) /\ typed(kind)
                       THEN <<Capitalize(kind) \o " Coeffs">> ELSE <<>>
        data(kind) == IF Conns(t, kind) /= <<>> THEN <<SectionName(kind)>> ELSE <<>>
    IN (IF is_fully_typed(t) THEN <<"Masses", "Pair Coeffs">> ELSE <<>>)
       \o coeff("bond") \o coeff("angle") \o coeff("dihedral") \o coeff("improper")
       \o <<"Atoms">>
       \o data("bond") \o data("angle") \o data("dihedral") \o data("improper")

\* the file starts with the title line, then the counts, then the box, and
\* no section starts before the box ends
HeaderThenBox(lines) ==
    /\ Len(lines) >= 1 /\ Len(lines[1]) >= 2 /\ lines[1][2] = W("written")
    /\ \E b \in 2..Len(lines) : \E z \in (b + 1)..Len(lines) :
          /\ HasWord(lines[b], "xlo")
          /\ HasWord(lines[z], "zlo")
          /\ \E h \in 2..(b - 1) : HasWord(lines[h], "atoms")
          /\ \A x \in 1..z : SectionTitle(lines[x]) = ""
          /\ \A x \in b..Len(lines) :
                ~HasWord(lines[x], "atoms") /\ ~HasWord(lines[x], "types")

\* C8: write_lammpsdata emits the header, the box, and then the sections in
\* the fixed order Masses, Pair Coeffs, Bond Coeffs, Angle Coeffs, Dihedral
\* Coeffs, Improper Coeffs, Atoms, Bonds, Angles, Dihedrals, Impropers; the
\* coefficient sections only for a fully typed topology (per kind, only when
\* it has types of that kind), Atoms always, and each connection section
\* when the topology has connections of that kind.  A call that raises
\* leaves a file that stops within this order.
C8_FixedSectionOrder ==
    (LastWriteOfTop /\ LastWrite.opened) =>
        /\ IsPrefix(SectionsOf(LastWrite.lines), ExpectedSections(top))
        /\ LastWrite.exc = "" =>
              /\ SectionsOf(LastWrite.lines) = ExpectedSections(top)
              /\ HeaderThenBox(LastWrite.lines)

\* a completed write of a topology with connections of every kind: the file
\* has all eleven sections
C8_AllSectionsWritten ==
    /\ LastWriteOfTop /\ LastWrite.opened /\ LastWrite.exc = ""
    /\ Len(SectionsOf(LastWrite.lines)) = 11

\* the arguments of write_lammpsdata hold a configuration error
WriteConfigError(a) ==
    \/ a.atom_style \notin {"full", "atomic", "molecular", "charge"}
    \/ a.unit_style \notin {"real", "lj", "metal", "si", "cgs", "electron", "micro", "nano"}
    \/ /\ a.unit_style /= "lj"
       /\ ~a.lj_cfactorsDict.none
       /\ DOMAIN a.lj_cfactorsDict.d /= {}

\* the arguments of read_lammpsdata hold a configuration error
ReadConfigError(r) ==
    \/ r.atom_style /= "full"
    \/ r.unit_style \notin {"real", "lj", "metal", "si", "cgs", "electron", "micro", "nano"}

\* C9: configuration errors are raised before any file is touched: a call of
\* write_lammpsdata with an unsupported atom_style or unit_style, or with a
\* non-empty lj_cfactorsDict and a unit_style other than lj, and a call of
\* read_lammpsdata with an atom_style other than full or an unrecognised
\* unit_style, raise ValueError and leave the file unopened and as it was.
C9_ConfigErrorsTouchNoFile ==
    [][ /\ (Len(writes') = Len(writes) + 1 /\ WriteConfigError(args)) =>
              /\ writes'[Len(writes')].exc = "ValueError"
              /\ ~writes'[Len(writes')].opened
              /\ fs' = fs
        /\ (rd'.done /\ ~rd.done /\ ReadConfigError(rd')) =>
              /\ rd'.exc = "ValueError"
              /\ ~rd'.opened
              /\ fs' = fs ]_vars

\* write_lammpsdata was called with a configuration error on an existing
\* file, and read_lammpsdata was then called with a configuration error
C9_ConfigErrorsRaised ==
    /\ Len(writes) = 1
    /\ WriteConfigError(args)
    /\ writes[1].exc = "ValueError"
    /\ fs = OldFile
    /\ rd.done /\ ReadConfigError(rd) /\ rd.exc = "ValueError"

\* C10: with unit_style lj, an lj_cfactorsDict that holds a key other than
\* length, energy, mass or charge makes write_lammpsdata raise ValueError,
\* for either value of strict_units (the topology is fully typed, so that no
\* earlier step of the call raises for a missing type).
C10_UnknownFactorKeyRejected ==
    (/\ Len(writes) >= 1
     /\ is_fully_typed(top)
     /\ args.unit_style = "lj"
     /\ ~args.lj_cfactorsDict.none
     /\ ~(DOMAIN args.lj_cfactorsDict.d \subseteq {"length", "energy", "mass", "charge"}))
       => writes[1].exc = "ValueError"

\* the caller passed a reference factor for the key
SuppliedFactor(a, key) ==
    ~a.lj_cfactorsDict.none /\ key \in DOMAIN a.lj_cfactorsDict.d

\* the attribute of an atom type a reference factor is taken from
FactorSource(ty, key) ==
    CASE key = "length" -> ty.parameters["sigma"]
      [] key = "energy" -> ty.parameters["epsilon"]
      [] key = "mass" -> ty.mass
      [] key = "charge" -> ty.charge

\* q is the largest value of the key's attribute over the atom types of t
IsMaxOverTypes(t, q, key) ==
    /\ \E i \in 1..Len(t.sites) : FactorSource(t.sites[i].atom_type, key) = q
    /\ \A i \in 1..Len(t.sites) : FactorSource(t.sites[i].atom_type, key).v <= q.v

\* C11: whenever write_lammpsdata is called with unit_style lj, the reference
\* factors the file is written with are resolved for all four keys: a factor
\* the caller supplied is used unchanged and every other factor is the
\* maximum over the atom types of sigma, epsilon, mass or charge, for either
\* value of strict_units.
C11_LjFactorsResolved ==
    [][ (/\ Len(writes') = Len(writes) + 1
         /\ args.unit_style = "lj"
         /\ is_fully_typed(top)
         /\ writes'[Len(writes')].opened) =>
            LET used == writes'[Len(writes')].used IN
            /\ ~used.none
            /\ \A key \in {"length", "energy", "mass", "charge"} :
                  /\ key \in DOMAIN used.d
                  /\ IF SuppliedFactor(args, key)
                     THEN used.d[key] = args.lj_cfactorsDict.d[key]
                     ELSE IsMaxOverTypes(top, used.d[key], key) ]_vars

\* the types of the typed connections of a kind
TypesOfKind(t, kind) ==
    {Conns(t, kind)[i].ctype : i \in 1..Len(Conns(t, kind))} \ {NoType}

\* some connection type of the topology is of no accepted template
HasMismatch(t) ==
    \E x \in 1..4 : \E ty \in TypesOfKind(t, Kinds[x]) :
        ty.name \notin {"LAMMPSHarmonicBondPotential", "LAMMPSHarmonicAnglePotential",
                        "PeriodicTorsionPotential", "HarmonicImproperPotential",
                        "OPLSTorsionPotential"}

\* the default template of a kind
DefaultTemplate(kind) ==
    CASE kind = "improper" -> "HarmonicImproperPotential"
      [] kind = "dihedral" -> "OPLSTorsionPotential"
      [] kind = "angle" -> "LAMMPSHarmonicAnglePotential"
      [] kind = "bond" -> "LAMMPSHarmonicBondPotential"

\* every typed connection of the topology is of the default template of its
\* kind
AllDefaultTemplates(t) ==
    \A x \in 1..4 : \A ty \in TypesOfKind(t, Kinds[x]) : ty.name = DefaultTemplate(Kinds[x])

\* nothing else than the potential templates can make the write fail: the
\* topology is fully typed, sites of one type name have one atom type, and
\* the units are those of the unit style
OnlyTemplatesAtStake ==
    /\ is_fully_typed(top)
    /\ top.sites /= <<>>
    /\ \A i, j \in 1..Len(top.sites) :
          top.sites[i].atom_type.name = top.sites[j].atom_type.name
             => top.sites[i].atom_type = top.sites[j].atom_type
    /\ args.atom_style \in {"full", "atomic", "molecular", "charge"}
    /\ args.unit_style = "real"
    /\ args.lj_cfactorsDict.none

\* C12: with strict_potentials=True write_lammpsdata only validates the
\* potential types against the accepted templates and never rewrites them (a
\* mismatch is an error); with strict_potentials=False it converts, before
\* any output is written, the types of every connection kind that has types
\* to the default template of the kind, and the write then succeeds.
C12_StrictValidatesElseConverts ==
    [][ (Len(writes') = Len(writes) + 1 /\ OnlyTemplatesAtStake) =>
           IF args.strict_potentials
           THEN /\ top' = top
                /\ HasMismatch(top) =>
                      (writes'[Len(writes')].exc /= "" /\ ~writes'[Len(writes')].opened)
           ELSE /\ writes'[Len(writes')].opened => AllDefaultTemplates(top')
                /\ writes'[Len(writes')].exc = "" ]_vars

(***************************************************************************)
(* C13.  The strict unit check.                                            *)
(***************************************************************************)
\* the types whose parameters _validate_unit_compatibility visits
CheckedTypes(t) == atom_types(t) \o AllConnTypes(t)

\* parameter p of type ty converts to a value further than 1e-3 from the
\* stored one
ParamMismatch(ty, p, style) ==
    LET cv == convert_parameter(ty.parameters[p], style, NoDict, 6, p)
    IN cv.ok /\ Abs(cv.v - ty.parameters[p].v) > 1000 + (Abs(ty.parameters[p].v) \div 100000)

\* every parameter of every type converts
AllConvert(t, style) ==
    \A i \in 1..Len(CheckedTypes(t)) : \A p \in ParamKeys(CheckedTypes(t)[i]) :
        convert_parameter(CheckedTypes(t)[i].parameters[p], style, NoDict, 6, p).ok

UnitMismatch(t, style) ==
    \E i \in 1..Len(CheckedTypes(t)) : \E p \in ParamKeys(CheckedTypes(t)[i]) :
        ParamMismatch(CheckedTypes(t)[i], p, style)

\* the checks that precede "if strict_units:" pass on the call at hand
ReachesUnitCheck ==
    /\ args.atom_style \in AtomStyles /\ args.unit_style \in UnitStyles
    /\ ~(args.unit_style /= "lj" /\ Truthy(args.lj_cfactorsDict))
    /\ IF args.strict_potentials THEN validate_potential_compatibility(top) = ""
       ELSE try_default_potential_conversions(top).exc = ""

\* C13: a write with strict_units=True of a topology one of whose type
\* parameters converts to a value more than 1e-3 away from the stored one
\* fails with IncompatibleUnitsError, and fails before the file is opened.
C13_UnitMismatchIsIncompatibleUnitsError ==
    [][ (/\ Len(writes') = Len(writes) + 1 /\ args.strict_units /\ ReachesUnitCheck
         /\ AllConvert(top', args.unit_style) /\ UnitMismatch(top', args.unit_style)) =>
           /\ writes'[Len(writes')].exc = "IncompatibleUnitsError"
           /\ ~writes'[Len(writes')].opened ]_vars

(***************************************************************************)
(* C14.  Pair Coeffs rows with a cutoff column.                            *)
(***************************************************************************)
\* the rows of the Pair Coeffs table of a file
PairRows(lines) ==
    IF LinePos(lines, "Pair", "Coeffs") = 0 THEN <<>>
    ELSE [r \in 1..TableLen(lines, LinePos(lines, "Pair", "Coeffs")) |->
            TableRow(lines, LinePos(lines, "Pair", "Coeffs"), r)]

HasCutoffRow(lines) ==
    \E r \in 1..Len(PairRows(lines)) :
        Len(PairRows(lines)[r]) = 4 /\ \A c \in 1..4 : IsFloat(PairRows(lines)[r][c])

\* the file with the fourth column of its Pair Coeffs rows dropped
DropCutoff(lines) ==
    LET p == LinePos(lines, "Pair", "Coeffs")
    IN [x \in 1..Len(lines) |->
          IF p > 0 /\ x >= p + 2 /\ x <= p + 1 + TableLen(lines, p) /\ Len(lines[x]) = 4
          THEN SubSeq(lines[x], 1, 3) ELSE lines[x]]

\* the caller has read the file at the path with a style the reader takes
ReadDone == rd.done /\ rd.atom_style = "full" /\ rd.unit_style \in UnitStyles /\ fs.exists

\* what the reader makes of the file at the path once its cutoff column is dropped
ReadWithoutCutoff ==
    read_lammpsdata([fs EXCEPT !.lines = DropCutoff(fs.lines)], rd.atom_style, rd.unit_style)

\* C14: a file whose Pair Coeffs rows carry a cutoff column reads without
\* error, with the warning, and gives the topology the same file gives
\* without that column: epsilon and sigma of the row are assigned.
C14_CutoffColumnDropped ==
    (ReadDone /\ HasCutoffRow(fs.lines) /\ ReadWithoutCutoff.exc = "") =>
        /\ rd.exc = ""
        /\ rd.warn
        /\ rd.top = ReadWithoutCutoff.top

(***************************************************************************)
(* C15.  A kind without its "<N> <kind> types" line.                       *)
(***************************************************************************)
HasTypesLine(lines, kind) ==
    \E x \in 1..Len(lines) : HasWord(lines[x], kind) /\ HasWord(lines[x], "types")

\* the count of the "<N> <kind>s" line of the header, 0 if there is none
DeclaredCount(lines, kind) ==
    LET hit(x) == /\ Len(lines[x]) = 2 /\ IsInt(lines[x][1])
                  /\ lines[x][2] = W(kind \o "s")
    IN IF \E x \in 1..Len(lines) : hit(x)
       THEN lines[CHOOSE x \in 1..Len(lines) : hit(x)][1].n ELSE 0

\* the sites the reader makes of the file
SitesRead(lines, style) ==
    get_atoms(lines, style, get_ff_information(lines, style).type_list).sites

\* everything of the file but the sections of one kind reads without error
OtherPartsRead(lines, style, kind) ==
    /\ get_box_coordinates(lines, style).exc = ""
    /\ get_ff_information(lines, style).exc = ""
    /\ get_atoms(lines, style, get_ff_information(lines, style).type_list).exc = ""
    /\ \A x \in 1..4 : Kinds[x] /= kind =>
          get_connection(lines, SitesRead(lines, style), style, Kinds[x]).exc = ""

\* C15: when the file has no "<N> <kind> types" line, the read completes
\* without error, the topology has no connection of that kind, and the
\* kinds that have their line and their sections are still read, as many
\* connections as the header declares.
C15_MissingTypesLineSkipsKind ==
    \A x \in 1..4 :
        (/\ ReadDone /\ ~HasTypesLine(fs.lines, Kinds[x])
         /\ OtherPartsRead(fs.lines, rd.unit_style, Kinds[x])) =>
            /\ rd.exc = ""
            /\ Conns(rd.top, Kinds[x]) = <<>>
            /\ conn_types(rd.top, Kinds[x]) = <<>>
            /\ \A y \in 1..4 :
                  (/\ HasTypesLine(fs.lines, Kinds[y])
                   /\ LinePos(fs.lines, Capitalize(Kinds[y]), "Coeffs") > 0
                   /\ LinePos(fs.lines, Capitalize(Kinds[y]) \o "s", "") > 0) =>
                      Len(Conns(rd.top, Kinds[y])) = DeclaredCount(fs.lines, Kinds[y])

\* a file that declares and lists bonds but has no "<N> bond types" line has
\* been read, and its angles with it
C15_BondsSkippedAnglesRead ==
    /\ ReadDone /\ rd.exc = ""
    /\ ~HasTypesLine(fs.lines, "bond") /\ DeclaredCount(fs.lines, "bond") > 0
    /\ LinePos(fs.lines, "Bonds", "") > 0
    /\ rd.top.bonds = <<>> /\ Len(rd.top.angles) = 2

(***************************************************************************)
(* C16.  Index resolution of the data rows.                                *)
(***************************************************************************)
\* the rows of the table or section whose title line starts with w1 w2
RowsOf(lines, w1, w2) ==
    IF LinePos(lines, w1, w2) = 0 THEN <<>>
    ELSE [r \in 1..TableLen(lines, LinePos(lines, w1, w2)) |->
            TableRow(lines, LinePos(lines, w1, w2), r)]

\* the types the rows of the coefficient table of a kind stand for
CoeffTypes(lines, style, kind) ==
    connection_type_list(RowsOf(lines, Capitalize(kind), "Coeffs"), style, kind).lines

\* connection i of a kind is what row i of the data section says
ConnIsRow(lines, style, kind, i) ==
    LET row == RowsOf(lines, Capitalize(kind) \o "s", "")[i]
        c == Conns(rd.top, kind)[i]
    IN /\ Len(row) = n_sites(kind) + 2
       /\ c.members = [j \in 1..n_sites(kind) |-> row[j + 2].n]
       /\ row[2].n \in 1..Len(CoeffTypes(lines, style, kind))
       /\ [c.ctype EXCEPT !.member_types = <<>>] = CoeffTypes(lines, style, kind)[row[2].n]

\* site i has the type of the Masses row that row i of Atoms names
SiteIsRow(lines, style, i) ==
    LET row == RowsOf(lines, "Atoms", "")[i]
        masses == RowsOf(lines, "Masses", "")
        ty == rd.top.sites[i].atom_type
    IN /\ row[3].n \in 1..Len(masses)
       /\ ty.name = TokText(masses[row[3].n][1])
       /\ ty.mass.v = FloatOf(masses[row[3].n][2])
       /\ ty = get_ff_information(lines, style).type_list[row[3].n]

\* C16: after a read, connection i of each kind has as members the sites
\* row i of the data section names, in the order of the row, and as type
\* the type of the coefficient row the second column names; site i has the
\* atom type of the Masses row that the third column of Atoms row i names.
C16_RowsResolveByIndex ==
    (ReadDone /\ rd.exc = "") =>
        /\ \A x \in 1..4 : \A i \in 1..Len(Conns(rd.top, Kinds[x])) :
              ConnIsRow(fs.lines, rd.unit_style, Kinds[x], i)
        /\ \A i \in 1..Len(rd.top.sites) : SiteIsRow(fs.lines, rd.unit_style, i)

\* a file with three bonds of two types, a dihedral listed 4 3 2 1 and two
\* impropers has been read
C16_ForeignFileRead ==
    /\ ReadDone /\ rd.exc = "" /\ rd.of = 0
    /\ Len(rd.top.sites) = 4 /\ Len(rd.top.bonds) = 3 /\ Len(rd.top.impropers) = 2
    /\ RowsOf(fs.lines, "Bonds", "")[1][2] = I(2)
    /\ Len(rd.top.dihedrals) = 1 /\ rd.top.dihedrals[1].members = <<4, 3, 2, 1>>

(***************************************************************************)
(* C17.  The member_types annotation of the types the reader attaches.     *)
(***************************************************************************)
\* the names of the atom types of the member sites of a connection, in the
\* order of its members
MemberNames(t, c) == [j \in 1..Len(c.members) |-> t.sites[c.members[j]].atom_type.name]

\* sorted(names)
SortedNames(names) == Items(SortPairs([j \in 1..Len(names) |-> <<<<Rank(names[j])>>, names[j]>>]))

\* C17 as stated: after a read, the member_types of the type of every
\* connection are the sorted names of the atom types of its member sites.
C17_MemberTypesSorted ==
    (ReadDone /\ rd.exc = "") =>
        \A x \in 1..4 : \A i \in 1..Len(Conns(rd.top, Kinds[x])) :
            Conns(rd.top, Kinds[x])[i].ctype.member_types
                = SortedNames(MemberNames(rd.top, Conns(rd.top, Kinds[x])[i]))

\* C17: after a read, the member_types of the type of every connection are
\* the names of the atom types of its member sites in the order the row
\* lists the sites, whatever other rows use the same type index.
C17_MemberTypesInRowOrder ==
    (ReadDone /\ rd.exc = "") =>
        \A x \in 1..4 : \A i \in 1..Len(Conns(rd.top, Kinds[x])) :
            Conns(rd.top, Kinds[x])[i].ctype.member_types
                = MemberNames(rd.top, Conns(rd.top, Kinds[x])[i])

\* two bonds read from rows of one type index carry different annotations
C17_SameTypeIndexTwoAnnotations ==
    /\ ReadDone /\ rd.exc = "" /\ Len(rd.top.bonds) = 3
    /\ RowsOf(fs.lines, "Bonds", "")[1][2] = RowsOf(fs.lines, "Bonds", "")[3][2]
    /\ rd.top.bonds[1].ctype.member_types = <<"2", "1">>
    /\ rd.top.bonds[3].ctype.member_types = <<"1", "2">>

(***************************************************************************)
(* C18.  The box written and read back.                                    *)
(***************************************************************************)
\* the position of the xlo xhi line of a file, 0 if there is none
BoxPos(lines) ==
    IF \E x \in 1..Len(lines) : HasWord(lines[x], "xlo")
    THEN CHOOSE x \in 1..Len(lines) :
            HasWord(lines[x], "xlo") /\ \A y \in 1..(x - 1) : ~HasWord(lines[y], "xlo")
    ELSE 0

\* <<xhi, xlo, yhi, ylo, zhi, zlo>> and <<xy, xz, yz>> as the file has them
FileBounds(lines) ==
    LET p == BoxPos(lines)
    IN <<lines[p][2].n, lines[p][1].n, lines[p + 1][2].n, lines[p + 1][1].n,
         lines[p + 2][2].n, lines[p + 2][1].n>>
FileTilts(lines) ==
    LET p == BoxPos(lines) IN <<lines[p + 3][1].n, lines[p + 3][2].n, lines[p + 3][3].n>>

\* the length of edge i of the box of the topology in the units of the write
WrittenLength(i) ==
    convert_parameter(top.box.lengths[i], args.unit_style, writes[1].used, 6, "").v

\* the edge vectors of the box of the topology in the units of the write
WrittenVectors ==
    [i \in 1..3 |-> [j \in 1..3 |-> Milli(WrittenLength(i)) * get_unit_vectors(top.box)[i][j]]]

\* the topology was written to the end and the file read back without error
BoxReadBack ==
    /\ ReadBack /\ rd.exc = ""
    /\ Len(writes) = 1 /\ writes[1].exc = "" /\ writes[1].opened

\* C18: the bounds of a written file, less the widening by the tilt
\* factors, are the writer's xhi, yhi, zhi, the tilt factors are the
\* writer's, and the box read back has the lengths and the angles of the
\* box written; a box of right angles reads back with right angles.
C18_BoxRoundTrip ==
    BoxReadBack =>
        /\ unwidened(FileBounds(fs.lines), FileTilts(fs.lines)[1], FileTilts(fs.lines)[2],
                     FileTilts(fs.lines)[3])
              = <<WrittenVectors[1][1], WrittenVectors[2][2], WrittenVectors[3][3]>>
        /\ FileTilts(fs.lines) = <<WrittenVectors[2][1], WrittenVectors[3][1],
                                   WrittenVectors[3][2]>>
        /\ \A i \in 1..3 :
              /\ rd.top.box.lengths[i].v = WrittenLength(i)
              /\ ToDegrees(rd.top.box.angles[i]) = ToDegrees(top.box.angles[i])
        /\ Orthogonal(top.box) => Orthogonal(rd.top.box)

\* a box with a negative xy and a positive yz has been written and read back
C18_TiltedBoxReadBack ==
    /\ BoxReadBack /\ ~Orthogonal(top.box)
    /\ FileTilts(fs.lines)[1] < 0 /\ FileTilts(fs.lines)[3] > 0
    /\ FileBounds(fs.lines)[2] < 0

(***************************************************************************)
(* C19.  The equivalent members of a dihedral.                             *)
(***************************************************************************)
\* C19: equivalent_members() of a dihedral with members (i, j, k, l) is
\* the set of exactly (i, j, k, l) and (l, k, j, i).
C19_EquivalentMembersBothOrders ==
    api.op = "equivalent_members" =>
        /\ Len(api.members) = 4
        /\ api.equivalent = { <<api.members[1], api.members[2], api.members[3], api.members[4]>>,
                              <<api.members[4], api.members[3], api.members[2], api.members[1]>> }

\* the dihedral (2, 1, 3, 4) has been asked for its equivalent members
C19_AskedOfDihedral2134 ==
    /\ api.op = "equivalent_members"
    /\ api.members = <<2, 1, 3, 4>>
    /\ <<4, 3, 1, 2>> \in api.equivalent

(***************************************************************************)
(* C20.  No connection with a repeated member.                             *)
(***************************************************************************)
PairwiseDistinct(m) == \A j \in 1..Len(m) : \A h \in 1..Len(m) : j /= h => m[j] /= m[h]

\* one of the rows of the data section of a kind that the header declares
\* names one site index in two columns
RepeatedRow(lines, kind) ==
    \E r \in 1..Min2(DeclaredCount(lines, kind), Len(RowsOf(lines, Capitalize(kind) \o "s", ""))) :
        LET row == RowsOf(lines, Capitalize(kind) \o "s", "")[r]
        IN /\ Len(row) >= n_sites(kind) + 2
           /\ \E j \in 3..(n_sites(kind) + 2) : \E h \in 3..(n_sites(kind) + 2) :
                 j /= h /\ IsInt(row[j]) /\ row[j] = row[h]

\* C20: constructing a connection with a member that is no Site fails with
\* TypeError, and with one Site in two positions fails with GMSOError; a
\* connection that is constructed, or that the reader adds to a topology,
\* has pairwise distinct members; and a read fails when a data row of a
\* kind it reads names one site index twice.
C20_NoRepeatedMembers ==
    /\ api.op = "Connection" =>
          /\ (\E j \in 1..Len(api.members) : api.members[j].k = "other") => api.exc = "TypeError"
          /\ (/\ \A j \in 1..Len(api.members) : api.members[j].k = "site"
              /\ ~PairwiseDistinct(api.members)) => api.exc = "GMSOError"
          /\ (api.exc = "" /\ \A j \in 1..Len(api.members) : api.members[j].k = "site") =>
                PairwiseDistinct(api.members)
    /\ (ReadDone /\ rd.exc = "") =>
          \A x \in 1..4 : \A i \in 1..Len(Conns(rd.top, Kinds[x])) :
              PairwiseDistinct(Conns(rd.top, Kinds[x])[i].members)
    /\ \A x \in 1..4 :
          (ReadDone /\ HasTypesLine(fs.lines, Kinds[x]) /\ RepeatedRow(fs.lines, Kinds[x])) =>
              rd.exc /= ""

\* a file whose first Dihedrals row names a site twice was read, and the
\* read failed on that row
C20_RepeatedRowRefused ==
    /\ ReadDone /\ rd.exc = "GMSOError"
    /\ HasTypesLine(fs.lines, "dihedral") /\ RepeatedRow(fs.lines, "dihedral")
    /\ ~RepeatedRow(fs.lines, "bond")

(***************************************************************************)
(* AtomType equality.                                                      *)
(***************************************************************************)
\* a and b agree on every attribute in fields, quantities as unyt compares them
AgreeOn(a, b, fields) ==
    \A f \in fields :
        CASE f \in {"mass", "charge"} -> unyt_equal(a[f], b[f])
          [] f = "parameters" ->
                /\ DOMAIN a[f] = DOMAIN b[f]
                /\ \A k \in DOMAIN a[f] : unyt_equal(a[f][k], b[f][k])
          [] OTHER -> a[f] = b[f]

ListedFields == {"name", "expression", "independent_variables", "parameters",
                 "mass", "charge"}
OtherFields == {"atomclass", "doi", "overrides", "definition", "description"}

\* the caller compared an AtomType with an AtomType constructed apart
ComparedApart ==
    api.op = "__eq__" /\ api.other.cls = "AtomType" /\ api.other.id /= api.self.id

\* a clone is another object that agrees with the original on every attribute
CloneIsDistinctCopy ==
    api.op = "clone" =>
        /\ api.other.cls = "AtomType"
        /\ api.other.id /= api.self.id
        /\ AgreeOn(api.self, api.other, ListedFields \cup OtherFields)

\* an AtomType does not equal an object that is no AtomType
NeverEqualsOtherClass ==
    (api.op = "__eq__" /\ api.other.cls /= "AtomType") => ~api.result

AskedUnit(style, dim) ==
    api.op = "get_units" /\ api.style = style /\ api.dimension = dim

\* C22: for every non-lj unit style get_units returns degree for angle_eq
\* and the style's base unit for every other dimension; for lj it returns
\* radian for angle and dimensionless for every other dimension, angle_eq
\* included.
C22_GetUnits ==
    \A style \in UnitStyles : \A dim \in Dimensions :
        AskedUnit(style, dim) =>
            /\ (style /= "lj" /\ dim = "angle_eq") => api.result = "degree"
            /\ (style /= "lj" /\ dim /= "angle_eq") => api.result = usystem(style)[dim]
            /\ (style = "lj" /\ dim = "angle") => api.result = "radian"
            /\ (style = "lj" /\ dim /= "angle") => api.result = "dimensionless"

\* the unit of equilibrium angles was asked for under a style whose angles
\* are in radians
C22_AngleEqUnderMetal ==
    AskedUnit("metal", "angle_eq") /\ usystem("metal")["angle"] = "radian"

(***************************************************************************)
(* Connections without types.                                              *)
(***************************************************************************)
\* t has connections of some kind and no connection of that kind has a type
HasUntypedKind(t) ==
    \E x \in 1..4 : Conns(t, Kinds[x]) /= <<>> /\ conn_types(t, Kinds[x]) = <<>>

\* the first call of write_lammpsdata was made with strict_potentials=False
\* and valid arguments on a topology with an untyped kind of connections
WroteUntypedKind ==
    /\ Len(writes) >= 1
    /\ ~args.strict_potentials
    /\ ~WriteConfigError(args)
    /\ HasUntypedKind(top)

\* C23: with strict_potentials=False, writing a topology that has
\* connections of some kind but no types for that kind succeeds: the
\* coefficient sections are left out and the Atoms section and the
\* connection data sections are written.
C23_UntypedKindStillWritten ==
    WroteUntypedKind =>
        /\ writes[1].exc = ""
        /\ LinePos(writes[1].lines, "Atoms", "") > 0
        /\ LinePos(writes[1].lines, "Masses", "") = 0
        /\ \A x \in 1..4 :
              Conns(top, Kinds[x]) /= <<>> =>
                  LinePos(writes[1].lines, Capitalize(Kinds[x]) \o "s", "") > 0

\* C23 (amended): with strict_potentials=False, writing a topology that has
\* connections of some kind but no types for that kind raises before the
\* output file is opened (AttributeError, unless converting the types of
\* another kind failed first), and no section is written.
C23_UntypedKindRefused ==
    [][ (Len(writes') = Len(writes) + 1 /\ ~args.strict_potentials
         /\ ~WriteConfigError(args) /\ HasUntypedKind(top)) =>
            /\ writes'[Len(writes')].exc \in {"AttributeError", "IncompatiblePotentialError"}
            /\ ~writes'[Len(writes')].opened
            /\ fs' = fs ]_vars

\* a write of a topology with an untyped kind of connections was refused
\* with AttributeError
C23_UntypedKindRaised ==
    WroteUntypedKind /\ writes[1].exc = "AttributeError" /\ ~writes[1].opened

(***************************************************************************)
(* Declared counts and the entities read.                                  *)
(***************************************************************************)
\* the file ends before the rows the header declares for a section
EndsBefore(lines, section, kind) ==
    /\ LinePos(lines, section, "") > 0
    /\ Len(lines) < LinePos(lines, section, "") + 1 + DeclaredCount(lines, kind)

\* C24: after a successful read the number of sites equals the N of the
\* "<N> atoms" line and the number of connections of each kind that is read
\* equals the N of its count line, also when the file ends before N rows.
C24_DeclaredCountsBuilt ==
    (rd.done /\ rd.exc = "") =>
        /\ Len(rd.top.sites) = DeclaredCount(fs.lines, "atom")
        /\ \A x \in 1..4 :
              HasTypesLine(fs.lines, Kinds[x]) =>
                  Len(Conns(rd.top, Kinds[x])) = DeclaredCount(fs.lines, Kinds[x])

\* a file that ends in the middle of its Atoms section was read without error
C24_TruncatedAtomsRead ==
    /\ rd.done /\ rd.exc = ""
    /\ EndsBefore(fs.lines, "Atoms", "atom")
    /\ Len(rd.top.sites) < DeclaredCount(fs.lines, "atom")

(***************************************************************************)
(* A failure after the file is opened.                                     *)
(***************************************************************************)
\* what the section writers are called with, in the order of the with block
SectionCalls(t, a, cf, e) ==
    LET data(kind) == IF Conns(t, kind) /= <<>> THEN write_conn_data(t, kind)
                      ELSE Wrote(<<>>)
    IN <<write_header(t, a.atom_style, e),
         write_box(t, a.unit_style, cf),
         IF is_fully_typed(t) THEN write_coeff_sections(t, a.unit_style, cf)
         ELSE Wrote(<<>>),
         write_site_data(t, a.atom_style, a.unit_style, cf),
         data("bond"), data("angle"), data("dihedral"), data("improper")>>

\* the lines the calls put into the file up to the first that raises
RECURSIVE WrittenUpTo(_, _)
WrittenUpTo(calls, n) ==
    IF n = 0 THEN <<>>
    ELSE IF \E j \in 1..(n - 1) : calls[j].exc /= "" THEN WrittenUpTo(calls, n - 1)
    ELSE WrittenUpTo(calls, n - 1) \o calls[n].lines

\* the exception of the first call that raises
FirstRaised(calls) ==
    calls[CHOOSE j \in 1..Len(calls) :
            calls[j].exc /= "" /\ \A x \in 1..(j - 1) : calls[x].exc = ""].exc

\* this step is a call of write_lammpsdata that raises after opening the file
WriteFailsOpened ==
    /\ Len(writes') = Len(writes) + 1
    /\ writes'[Len(writes')].opened
    /\ writes'[Len(writes')].exc /= ""

\* C25: when an error is raised after write_lammpsdata has opened the file,
\* nothing is rolled back: the file holds exactly what the section writers
\* wrote before the failure (nothing of what it held before the call,
\* nothing of the sections after the failing one), the handle is closed and
\* the error reaches the caller.
C25_NoRollback ==
    [][ WriteFailsOpened =>
          \E calls \in {SectionCalls(top', args, writes'[Len(writes')].used, env)} :
             /\ fs'.exists
             /\ fs'.lines = WrittenUpTo(calls, Len(calls))
             /\ fs = OldFile =>
                   \A x \in 1..Len(fs'.lines) : fs'.lines[x] /= OldFile.lines[1]
             /\ writes'[Len(writes')].handle = "closed"
             /\ writes'[Len(writes')].exc = FirstRaised(calls) ]_vars

\* a write over an existing file failed in a coefficient section: the file
\* now starts with the new title line and has no Atoms section
C25_FailedOverOldFile ==
    /\ Len(writes) = 1 /\ writes[1].opened /\ writes[1].exc /= ""
    /\ fs.exists /\ Len(fs.lines) > 1
    /\ fs.lines[1] /= OldFile.lines[1]
    /\ LinePos(fs.lines, "Masses", "") > 0
    /\ LinePos(fs.lines, "Atoms", "") = 0

(***************************************************************************)
(* The title line.                                                         *)
(***************************************************************************)
\* what the reader makes of the file at the path under a title without any
\* word the reader looks for
ReadUnderPlainTitle ==
    read_lammpsdata([fs EXCEPT !.lines = WithTitle(@, <<W("untitled")>>)],
                    rd.atom_style, rd.unit_style)

\* C26: the result of read_lammpsdata depends only on the count lines, the
\* section header lines and the rows of the sections: the title line never
\* changes what is read, whatever words it contains (a file that reads
\* under a plain title reads to the same topology under its own).
C26_TitleNeverMatters ==
    (ReadDone /\ Len(fs.lines) >= 1 /\ ReadUnderPlainTitle.exc = "") =>
        /\ rd.exc = ""
        /\ rd.top = ReadUnderPlainTitle.top

\* a file whose title holds the word atoms was read
C26_TitleWithAtomsRead ==
    ReadDone /\ Len(fs.lines) >= 1 /\ HasWord(fs.lines[1], "atoms")

(***************************************************************************)
(* Header counts and section rows of a written file.                       *)
(***************************************************************************)
\* the position of the "<N> <word>" or "<N> <word> types" line, 0 if none
CountPos(lines, word, types) ==
    LET hit(x) == /\ Len(lines[x]) = (IF types THEN 3 ELSE 2)
                  /\ IsInt(lines[x][1])
                  /\ lines[x][2] = W(word)
                  /\ types => lines[x][3] = W("types")
    IN IF \E x \in 1..Len(lines) : hit(x)
       THEN CHOOSE x \in 1..Len(lines) : hit(x) ELSE 0

\* the header count at CountPos agrees with the rows of the section titled
\* w1 w2, when the file has both
CountIsRows(lines, word, types, w1, w2) ==
    (CountPos(lines, word, types) > 0 /\ LinePos(lines, w1, w2) > 0) =>
        lines[CountPos(lines, word, types)][1].n = TableLen(lines, LinePos(lines, w1, w2))

\* the last call of write_lammpsdata returned without error
WroteFile == Len(writes) >= 1 /\ LastWrite.opened /\ LastWrite.exc = ""

\* C27: in every file written by write_lammpsdata each count of the header
\* equals the number of rows of the corresponding section: "<N> atoms" and
\* the Atoms rows, "<N> <kind>s" and the rows of that data section, "<N> atom
\* types" and the Masses and the Pair Coeffs rows, "<N> <kind> types" and the
\* rows of that kind's Coeffs table.
C27_CountsAreRows ==
    WroteFile =>
        /\ CountIsRows(LastWrite.lines, "atoms", FALSE, "Atoms", "")
        /\ CountIsRows(LastWrite.lines, "atom", TRUE, "Masses", "")
        /\ CountIsRows(LastWrite.lines, "atom", TRUE, "Pair", "Coeffs")
        /\ \A x \in 1..4 :
              /\ CountIsRows(LastWrite.lines, Kinds[x] \o "s", FALSE,
                             Capitalize(Kinds[x]) \o "s", "")
              /\ CountIsRows(LastWrite.lines, Kinds[x], TRUE,
                             Capitalize(Kinds[x]), "Coeffs")

\* a file with two bond types, three bonds and all its sections was written
C27_TwoBondTypesThreeBonds ==
    /\ WroteFile
    /\ CountPos(LastWrite.lines, "bond", TRUE) > 0
    /\ LastWrite.lines[CountPos(LastWrite.lines, "bond", TRUE)][1].n = 2
    /\ LinePos(LastWrite.lines, "Bond", "Coeffs") > 0
    /\ TableLen(LastWrite.lines, LinePos(LastWrite.lines, "Bond", "Coeffs")) = 2
    /\ LinePos(LastWrite.lines, "Bonds", "") > 0
    /\ TableLen(LastWrite.lines, LinePos(LastWrite.lines, "Bonds", "")) = 3

(***************************************************************************)
(* Sections of the body and the counts of the header.                      *)
(***************************************************************************)
\* C28: in every file written by write_lammpsdata, for every atom_style, a
\* data section of a kind is present only together with the "<N> <kind>s"
\* line, a "<Kind> Coeffs" section only together with the "<N> <kind> types"
\* line, and a "<N> <kind> types" line with N > 0 only together with that
\* Coeffs section.
C28_SectionsAreDeclared ==
    WroteFile =>
        \A x \in 1..4 :
            /\ LinePos(LastWrite.lines, Capitalize(Kinds[x]) \o "s", "") > 0
                  => CountPos(LastWrite.lines, Kinds[x] \o "s", FALSE) > 0
            /\ LinePos(LastWrite.lines, Capitalize(Kinds[x]), "Coeffs") > 0
                  => CountPos(LastWrite.lines, Kinds[x], TRUE) > 0
            /\ (/\ CountPos(LastWrite.lines, Kinds[x], TRUE) > 0
                /\ LastWrite.lines[CountPos(LastWrite.lines, Kinds[x], TRUE)][1].n > 0)
                  => LinePos(LastWrite.lines, Capitalize(Kinds[x]), "Coeffs") > 0

\* a topology with bonds was written with an atom_style that has no bonds
C28_BondsUnderAtomic ==
    /\ WroteFile /\ args.atom_style \in {"atomic", "charge"}
    /\ LinePos(LastWrite.lines, "Bonds", "") > 0
    /\ CountPos(LastWrite.lines, "bonds", FALSE) = 0

(***************************************************************************)
(* Accepted templates and their coefficient writers.                       *)
(***************************************************************************)
\* the first call of write_lammpsdata was made with strict_potentials=True,
\* in real units without the strict unit check, on a fully typed topology
\* with sites, no two atom types of one name, whose types all match
\* accepted templates
WroteValidatedStrict ==
    /\ Len(writes) >= 1
    /\ args.strict_potentials /\ ~args.strict_units /\ args.unit_style = "real"
    /\ ~WriteConfigError(args)
    /\ top.sites /= <<>> /\ is_fully_typed(top)
    /\ \A i, j \in 1..Len(top.sites) :
          top.sites[i].atom_type.name = top.sites[j].atom_type.name
             => top.sites[i].atom_type = top.sites[j].atom_type
    /\ validate_potential_compatibility(top) = ""

\* C29: every topology that passes the strict potential validation is then
\* written completely without error: each accepted template has a
\* coefficient writer that finds all the parameters it needs.
C29_ValidatedIsWritten ==
    WroteValidatedStrict => (writes[1].opened /\ writes[1].exc = "")

\* a validated topology with a dihedral type of the accepted template
\* PeriodicTorsionPotential was handed to the writer
C29_PeriodicTorsionValidated ==
    /\ WroteValidatedStrict
    /\ \E i \in 1..Len(top.dihedrals) :
          top.dihedrals[i].ctype.name = "PeriodicTorsionPotential"
    /\ writes[1].exc = "KeyError"

(***************************************************************************)
(* What a failed call leaves of the caller's arguments.                    *)
(***************************************************************************)
\* this step is a call of write_lammpsdata that raises exc
WriteRaises(exc) ==
    Len(writes') = Len(writes) + 1 /\ writes'[Len(writes')].exc = exc

\* the lj_cfactorsDict of the call has a key that is no reference factor
HasUnknownKey ==
    /\ args.unit_style = "lj" /\ ~args.lj_cfactorsDict.none
    /\ ~(DOMAIN args.lj_cfactorsDict.d \subseteq LjKeys)

\* C30: when write_lammpsdata fails with ValueError for an unrecognised
\* lj_cfactorsDict key, or with FileNotFoundError for a missing parent
\* directory, the caller's lj_cfactorsDict holds exactly the entries it was
\* passed with and the topology's potential types are the ones it had
\* before the call.
C30_FailedCallChangesNothing ==
    [][ (\/ WriteRaises("ValueError") /\ HasUnknownKey
         \/ WriteRaises("FileNotFoundError") /\ ~fs.parent) =>
            /\ args'.lj_cfactorsDict = args.lj_cfactorsDict
            /\ top' = top ]_vars

\* the call with an unknown key failed and left three more entries in the
\* caller's dict
C30_DictFilledBeforeValueError ==
    /\ Len(writes) = 1 /\ writes[1].exc = "ValueError"
    /\ DOMAIN args.lj_cfactorsDict.d = LjKeys \cup {"time"}
=============================================================================
